---- MODULE Spec2Model ----
(***************************************************************************)
(* dm_cache: a JSON document store that shreds documents into path-keyed   *)
(* records of an ordered KV engine (sled).  The model follows              *)
(*   src/src/kv/node.rs      VariableSizedId, KeyIndex, Key, NodeValue     *)
(*   src/src/kv/store.rs     Store::get_super_node                         *)
(*   src/src/db/metadata.rs  Metadata::encode / decode                     *)
(*   src/src/json/parse_iter.rs  JsonDfsIter                               *)
(*   src/src/lib.rs          set_database_path, get_database, insert_json  *)
(* Bytes are integers 0..255, byte strings are sequences of bytes.  A      *)
(* VariableSizedId is modelled by its `value` byte vector.  u64 is         *)
(* modelled as an unsigned integer of IdBits bits.                         *)
(***************************************************************************)
EXTENDS Integers, Sequences, FiniteSets, TLC

VARIABLES
    overflow_checks,  \* build profile: TRUE = debug (arithmetic overflow panics), FALSE = release (wraps)
    INIT_PATH,        \* static INIT_PATH: OnceLock<String>; NoPath while unset
    DATABASE,         \* static DATABASE: OnceLock<Result<RwLock<Database>, DBError>>
    disk,             \* the sled trees on the file system: path -> (key bytes -> value bytes)
    last,             \* the last API call: operation, key argument, result
    commits,          \* number of batches committed so far (bounds the run)
    restarts,         \* number of process restarts so far (bounds the run)
    journal,          \* per path: the metadata the last committed batch carried (history)
    probe,            \* codec probe: operation, input and output of a pure-function call
    threads           \* the RwLock of the Database and the threads calling into the crate

vars == <<overflow_checks, INIT_PATH, DATABASE, disk, last, commits, restarts, journal, probe,
          threads>>

----------------------------------------------------------------------------
(* Bounds of the model *)

\* width of the modelled u64 in bits
IdBits == 14
\* most batches committed in one run
MaxInserts == 2
\* most process restarts in one run
MaxRestarts == 1
\* longest id list of a probed key
MaxProbeIds == 2

(* Program constants *)

\* node.rs:74 and node.rs:154: a varint has at most 10 bytes
MaxVarIdBytes == 10

U64Modulus == 2 ^ IdBits
U64Max == U64Modulus - 1

----------------------------------------------------------------------------
(* Helpers on byte strings *)

Min(a, b) == IF a < b THEN a ELSE b

Tail2(s, from) == SubSeq(s, from, Len(s))

RECURSIVE Concat(_)
Concat(ss) == IF ss = <<>> THEN <<>> ELSE Head(ss) \o Concat(Tail(ss))

\* lexicographic order of byte strings, the order of sled's keys
LexLess(a, b) ==
    \E i \in 1..(Min(Len(a), Len(b)) + 1) :
        /\ \A j \in 1..(i - 1) : a[j] = b[j]
        /\ \/ i > Len(a) /\ i <= Len(b)
           \/ i <= Len(a) /\ i <= Len(b) /\ a[i] < b[i]

LexLeq(a, b) == a = b \/ LexLess(a, b)

\* std::str::from_utf8 on the byte strings of the model: ASCII bytes are valid, and
\* the only other bytes the model's inputs hold are lone 0x80..0xFF bytes, which are not
IsUtf8(bytes) == \A i \in 1..Len(bytes) : bytes[i] < 128

Ok(v) == [ok |-> TRUE, v |-> v, err |-> "none"]
Err(e) == [ok |-> FALSE, v |-> <<>>, err |-> e]

----------------------------------------------------------------------------
(* VariableSizedId, node.rs:36-163 *)

RECURSIVE VarSize(_)
VarSize(v) == IF v >= 128 THEN 1 + VarSize(v \div 128) ELSE 1

\* VariableSizedId::new without the continuation flag of node.rs:54-56: a variant the
\* varint round trip must tell from VarIdNew
VarIdNewNoFlag(value) ==
    [i \in 1..VarSize(value) |-> (value \div (128 ^ (i - 1))) % 128]

\* VariableSizedId::new
VarIdNew(value) ==
    [i \in 1..VarSize(value) |->
        LET v == value \div (128 ^ (i - 1))
        IN  (v % 128) + (IF v \div 128 # 0 THEN 128 ELSE 0)]

\* val << shift on the modelled u64: bits shifted past the top are lost
Shl(val, shift) == IF shift >= IdBits THEN 0 ELSE (val * (2 ^ shift)) % U64Modulus

RECURSIVE ToU64From(_, _, _, _)
ToU64From(bytes, i, result, shift) ==
    IF i > Len(bytes) THEN Err("InvalidLength")
    ELSE IF i - 1 >= MaxVarIdBytes THEN Err("Overflow")
    ELSE LET r == result + Shl(bytes[i] % 128, shift)
         IN  IF bytes[i] < 128 THEN Ok(r) ELSE ToU64From(bytes, i + 1, r, shift + 7)

\* VariableSizedId::to_u64
ToU64(bytes) == ToU64From(bytes, 1, 0, 0)

\* VariableSizedId::decode: one length byte, then the value
VarIdDecode(id) ==
    IF id = <<>> THEN Err("InvalidLength")
    ELSE IF Len(id) < id[1] + 1 THEN Err("InvalidLength")
    ELSE Ok(SubSeq(id, 2, id[1] + 1))

\* the outcome of a call that may panic
Done(v) == [st |-> "ok", v |-> v, err |-> "none"]
Fail(e) == [st |-> "err", v |-> <<>>, err |-> e]
Panic == [st |-> "panic", v |-> <<>>, err |-> "panic"]
\* an error with its payload: DatabaseStoreError(EncodeError(..)) or (SledError(..))
Fail2(e, d) == [st |-> "err", v |-> <<>>, err |-> e, detail |-> d]

\* VariableSizedId::unchecked_plus: to_u64().unwrap(), then lhs + rhs on u64
UncheckedPlus(id, rhs, oc) ==
    LET l == ToU64(id)
    IN  IF ~l.ok THEN Panic
        ELSE IF l.v + rhs > U64Max
             THEN (IF oc THEN Panic ELSE Done(VarIdNew((l.v + rhs) % U64Modulus)))
             ELSE Done(VarIdNew(l.v + rhs))

\* VariableSizedId::unchecked_minus: to_u64().unwrap(), then lhs - rhs on u64
UncheckedMinus(id, rhs, oc) ==
    LET l == ToU64(id)
    IN  IF ~l.ok THEN Panic
        ELSE IF l.v - rhs < 0
             THEN (IF oc THEN Panic ELSE Done(VarIdNew((l.v - rhs) % U64Modulus)))
             ELSE Done(VarIdNew(l.v - rhs))

RECURSIVE ReadFrom(_, _)
ReadFrom(data, i) ==
    IF i > Len(data) THEN Err("InvalidLength")
    ELSE IF data[i] < 128 THEN Ok([id |-> SubSeq(data, 1, i), consumed |-> i])
    ELSE IF i > MaxVarIdBytes THEN Err("Overflow")
    ELSE IF i >= Len(data) THEN Err("InvalidLength")
    ELSE ReadFrom(data, i + 1)

\* read_variable_sized_id
ReadVariableSizedId(data) == ReadFrom(data, 1)

----------------------------------------------------------------------------
(* KeyIndex and Key, node.rs:165-318 *)

SPLITOR == 0

Root == [t |-> "Root", v |-> <<>>]
Field(bytes) == [t |-> "Field", v |-> bytes]
Id(varid) == [t |-> "Id", v |-> varid]

\* KeyIndex::encode
KeyIndexEncode(fk) ==
    CASE fk.t = "Id" -> <<2>> \o fk.v
      [] fk.t = "Field" -> <<1>> \o fk.v
      [] OTHER -> <<3>>

\* KeyIndex::decode
KeyIndexDecode(data) ==
    IF data = <<>> THEN Err("InvalidLength")
    ELSE CASE data[1] = 1 ->
                IF IsUtf8(Tail(data)) THEN Ok(Field(Tail(data))) ELSE Err("InvalidUtf8")
           [] data[1] = 2 ->
                LET id == VarIdDecode(Tail(data))
                IN  IF id.ok THEN Ok(Id(id.v)) ELSE Err(id.err)
           [] data[1] = 3 -> Ok(Root)
           [] OTHER -> Err("InvalidType")

MkKey(ids, fk) == [ids |-> ids, field_key |-> fk]

RECURSIVE EncodeIds(_, _)
EncodeIds(ids, oc) ==
    IF ids = <<>> THEN Done(<<>>)
    ELSE LET h == UncheckedPlus(Head(ids), 1, oc)
             r == EncodeIds(Tail(ids), oc)
         IN  IF h.st # "ok" THEN Panic
             ELSE IF r.st # "ok" THEN Panic
             ELSE Done(h.v \o r.v)

\* Key::encode
KeyEncode(k, oc) ==
    LET e == EncodeIds(k.ids, oc)
    IN  IF e.st # "ok" THEN Panic
        ELSE Done(e.v \o <<SPLITOR>> \o KeyIndexEncode(k.field_key))

RECURSIVE DecodeIds(_, _, _, _)

\* ids.push(id.unchecked_minus(1)); offset += consumed (already added to offset)
DecodeIdsPush(bytes, offset, ids, oc, m) ==
    IF m.st # "ok" THEN Panic
    ELSE DecodeIds(bytes, offset, Append(ids, m.v), oc)

\* let (id, consumed) = read_variable_sized_id(&bytes[offset..])?
DecodeIdsRead(bytes, offset, ids, oc, r) ==
    IF ~r.ok THEN Fail(r.err)
    ELSE DecodeIdsPush(bytes, offset + r.v.consumed, ids, oc, UncheckedMinus(r.v.id, 1, oc))

\* the loop of Key::decode: ids read so far, offset (0-based) into bytes
DecodeIds(bytes, offset, ids, oc) ==
    IF offset >= Len(bytes) THEN Done([ids |-> ids, offset |-> offset])
    ELSE IF bytes[offset + 1] = SPLITOR THEN Done([ids |-> ids, offset |-> offset + 1])
    ELSE DecodeIdsRead(bytes, offset, ids, oc, ReadVariableSizedId(Tail2(bytes, offset + 1)))

\* Key::decode, the end: Ok(Self { ids, field_key }) from KeyIndex::decode's result
KeyDecodeIndex(ids, fk) ==
    IF ~fk.ok THEN Fail(fk.err)
    ELSE Done(MkKey(ids, fk.v))

\* Key::decode after the loop: d is the loop's result
KeyDecodeAfterIds(bytes, d) ==
    IF d.st # "ok" THEN d
    ELSE IF d.v.offset > Len(bytes) THEN Fail("InvalidLength")
    ELSE KeyDecodeIndex(d.v.ids, KeyIndexDecode(Tail2(bytes, d.v.offset + 1)))

\* Key::decode
KeyDecode(bytes, oc) == KeyDecodeAfterIds(bytes, DecodeIds(bytes, 0, <<>>, oc))

\* Key::super_id_prefix (called with at least one id)
SuperIdPrefix(k) ==
    Concat(SubSeq(k.ids, 1, Len(k.ids) - 1)) \o <<SPLITOR>>

\* Key::sub_key
SubKey(k, id, index) == MkKey(Append(k.ids, id), index)

----------------------------------------------------------------------------
(* NodeValue, node.rs:319-419.  A NodeValue is [kind, payload]: the payload  *)
(* of Bool is 0 or 1, of Number / NumberI / NumberU the 8 big-endian bytes, *)
(* of String its bytes; the markers Null, Array and Object carry <<>>.      *)

NodeValue(kind, payload) == [kind |-> kind, payload |-> payload]

\* u64::to_be_bytes / i64::to_be_bytes of a value in 0 .. 2^31 - 1
BE64(n) == <<0, 0, 0, 0>> \o [i \in 1..4 |-> (n \div (256 ^ (4 - i))) % 256]

\* u64::from_be_bytes of 8 bytes whose value is in 0 .. 2^31 - 1
FromBE64(b) == b[5] * (2 ^ 24) + b[6] * (2 ^ 16) + b[7] * (2 ^ 8) + b[8]

\* NodeValue::encode
NodeValueEncode(nv) ==
    CASE nv.kind = "Null" -> <<0>>
      [] nv.kind = "Bool" -> <<1, nv.payload>>
      [] nv.kind = "Number" -> <<2>> \o nv.payload
      [] nv.kind = "NumberI" -> <<3>> \o nv.payload
      [] nv.kind = "NumberU" -> <<4>> \o nv.payload
      [] nv.kind = "String" -> <<3>> \o nv.payload
      [] nv.kind = "Array" -> <<4>>
      [] OTHER -> <<5>>

\* NodeValue::decode (data[1] of a one-byte Bool record is an out-of-bounds index)
NodeValueDecode(data) ==
    IF data = <<>> THEN Fail("InvalidLength")
    ELSE CASE data[1] = 0 -> Done(NodeValue("Null", <<>>))
           [] data[1] = 1 ->
                IF Len(data) < 2 THEN Panic
                ELSE Done(NodeValue("Bool", IF data[2] # 0 THEN 1 ELSE 0))
           [] data[1] = 2 ->
                IF Len(data) < 9 THEN Fail("InvalidLength")
                ELSE Done(NodeValue("Number", SubSeq(data, 2, 9)))
           [] data[1] = 3 ->
                IF Len(data) < 9 THEN Fail("InvalidLength")
                ELSE Done(NodeValue("NumberI", SubSeq(data, 2, 9)))
           [] data[1] = 4 ->
                IF Len(data) < 9 THEN Fail("InvalidLength")
                ELSE Done(NodeValue("NumberU", SubSeq(data, 2, 9)))
           [] data[1] = 5 -> Done(NodeValue("String", Tail(data)))
           [] data[1] = 6 -> Done(NodeValue("Array", <<>>))
           [] data[1] = 7 -> Done(NodeValue("Object", <<>>))
           [] OTHER -> Fail("InvalidType")

\* NodeValue::is_object, NodeValue::is_array
IsObject(nv) == nv.kind = "Object"
IsArray(nv) == nv.kind = "Array"

----------------------------------------------------------------------------
(* Metadata, metadata.rs:6-81 *)

\* Metadata::new
MetadataNew == [version |-> 0, last_id |-> 0, last_timestamp |-> 0, roots |-> {}]

\* the order in which `for id in &self.roots` visits the HashSet: some fixed order
RECURSIVE SetToSeq(_)
SetToSeq(S) ==
    IF S = {} THEN <<>>
    ELSE LET x == CHOOSE y \in S : \A z \in S : LexLeq(y, z)
         IN  <<x>> \o SetToSeq(S \ {x})

RECURSIVE EncodeRoots(_)
EncodeRoots(rs) ==
    IF rs = <<>> THEN <<>>
    ELSE <<Len(Head(rs)) % 256>> \o Head(rs) \o EncodeRoots(Tail(rs))

\* Metadata::encode
MetadataEncode(m) ==
    BE64(m.version) \o BE64(m.last_id) \o BE64(m.last_timestamp)
        \o EncodeRoots(SetToSeq(m.roots))

RECURSIVE DecodeRoots(_, _, _)
\* the while loop of Metadata::decode; offset is 0-based
DecodeRoots(buf, offset, roots) ==
    IF offset >= Len(buf) THEN Ok(roots)
    ELSE LET len == buf[offset + 1]
         IN  IF offset + len >= Len(buf) THEN Err("Overflow")
             ELSE DecodeRoots(buf, offset + 1 + len,
                              roots \cup {SubSeq(buf, offset + 2, offset + 1 + len)})

\* Metadata::decode
MetadataDecode(buf) ==
    IF Len(buf) < 24 \/ Len(buf) % 8 # 0 THEN Err("InvalidLength")
    ELSE LET r == DecodeRoots(buf, 24, {})
         IN  IF ~r.ok THEN Err(r.err)
             ELSE Ok([version |-> FromBE64(SubSeq(buf, 1, 8)),
                      last_id |-> FromBE64(SubSeq(buf, 9, 16)),
                      last_timestamp |-> FromBE64(SubSeq(buf, 17, 24)),
                      roots |-> r.v])

----------------------------------------------------------------------------
(* The parsed JSON value (simd_json::BorrowedValue) and JsonDfsIter,        *)
(* parse_iter.rs:39-184.  A value is [t, members, s, static]: members are   *)
(* the (name, value) pairs of an Object or the elements of an Array in      *)
(* iteration order, s the bytes of a String, static the StaticNode.         *)

JObject(members) == [t |-> "Object", members |-> members, s |-> <<>>, static |-> "none", n |-> 0]
JArray(elems) == [t |-> "Array", members |-> elems, s |-> <<>>, static |-> "none", n |-> 0]
JString(bytes) == [t |-> "String", members |-> <<>>, s |-> bytes, static |-> "none", n |-> 0]
\* StaticNode::I64(n), StaticNode::Bool(n # 0), StaticNode::Null
JStatic(kind, n) == [t |-> "Static", members |-> <<>>, s |-> <<>>, static |-> kind, n |-> n]
Member(name, value) == [k |-> name, v |-> value]

\* lib.rs:152-168: the NodeValue written for a yielded item
ItemNodeValue(node) ==
    CASE node.t = "Array" -> NodeValue("Array", <<>>)
      [] node.t = "Object" -> NodeValue("Object", <<>>)
      [] node.t = "String" -> NodeValue("String", node.s)
      [] node.static = "Bool" -> NodeValue("Bool", node.n)
      [] node.static = "F64" -> NodeValue("Number", BE64(node.n))
      [] node.static = "I64" -> NodeValue("NumberI", BE64(node.n))
      [] node.static = "U64" -> NodeValue("NumberU", BE64(node.n))
      [] OTHER -> NodeValue("Null", <<>>)

\* make_sub_key adding 2 to last_id: a variant the counter of the one-member insert
\* must tell from MakeSubKey
MakeSubKeyByTwo(node_key, last_id, kind, oc) ==
    IF last_id + 2 > U64Max /\ oc THEN Panic
    ELSE Done([key |-> SubKey(node_key, VarIdNew((last_id + 2) % U64Modulus), kind),
               last_id |-> (last_id + 2) % U64Modulus])

\* make_sub_key, lib.rs:86-89: metadata.last_id += 1 on u64, then sub_key
MakeSubKey(node_key, last_id, kind, oc) ==
    IF last_id + 1 > U64Max /\ oc THEN Panic
    ELSE LET id == (last_id + 1) % U64Modulus
         IN  Done([key |-> SubKey(node_key, VarIdNew(id), kind), last_id |-> id])

\* the closure insert_json hands to JsonDfsIter, lib.rs:120-147, for the root item
\* (Array | Object | String | Static): raises last_id to the last id of node_key
RaiseLastId(node_key, last_id) ==
    IF node_key.ids = <<>> THEN last_id
    ELSE LET l == ToU64(node_key.ids[Len(node_key.ids)])
         IN  IF l.ok /\ last_id < l.v THEN l.v ELSE last_id

\* the closure for a member: KV(k, _) gives Field(k), IV(idx, _) gives Id(idx)
MemberKind(node, idx) ==
    IF node.t = "Object" THEN Field(node.members[idx].k)
    ELSE Id(VarIdNew(idx - 1))

RECURSIVE PushChildren(_, _, _, _, _, _)
\* the `for (k, v) in obj.iter()` / `for (idx, v) in arr.iter().enumerate()` loop
PushChildren(node, idx, state, stack, last_id, oc) ==
    IF idx > Len(node.members) THEN Done([stack |-> stack, last_id |-> last_id])
    ELSE LET c == MakeSubKey(state, last_id, MemberKind(node, idx), oc)
         IN  IF c.st # "ok" THEN Panic
             ELSE PushChildren(node, idx + 1, state,
                               Append(stack, [node |-> node.members[idx].v, state |-> c.v.key]),
                               c.v.last_id, oc)

\* JsonDfsIter::next, the end: the popped node is yielded with its state; pc is the
\* result of the member loop
JsonDfsIterYield(top, pc) ==
    IF pc.st # "ok" THEN Panic
    ELSE Done([it |-> [stack |-> pc.v.stack, is_root |-> FALSE, last_id |-> pc.v.last_id],
               some |-> TRUE, node |-> top.node, state |-> top.state])

\* JsonDfsIter::next after stack.pop(): the closure on the root item, then the members
JsonDfsIterVisit(it, top, rest, oc) ==
    JsonDfsIterYield(top,
        PushChildren(top.node, 1, top.state, rest,
                     IF it.is_root THEN RaiseLastId(top.state, it.last_id) ELSE it.last_id, oc))

\* JsonDfsIter::next with insert_json's closure: it = [stack, is_root, last_id].
\* Gives the iterator after the call and the item it yields (none when the stack is empty).
JsonDfsIterNext(it, oc) ==
    IF it.stack = <<>> THEN Done([it |-> it, some |-> FALSE, node |-> JString(<<>>), state |-> MkKey(<<>>, Root)])
    ELSE JsonDfsIterVisit(it, it.stack[Len(it.stack)], SubSeq(it.stack, 1, Len(it.stack) - 1), oc)

RECURSIVE Drain(_, _, _)

\* DrainItem writing no record for an Array or Object item: a variant the record count
\* of a shredded document must tell from DrainItem
DrainItemNoMarkers(nx, ek, batch, oc) ==
    IF ek.st # "ok" THEN Panic
    ELSE Drain(nx.v.it,
               IF nx.v.node.t \in {"Array", "Object"} THEN batch
               ELSE Append(batch, [key |-> ek.v, value |-> NodeValueEncode(ItemNodeValue(nx.v.node)),
                                   node |-> nx.v.state]),
               oc)

\* lib.rs:150-170: betch.insert(key.encode(), node_value.encode()); ek is key.encode().
\* Each record of the batch remembers in `node` the Key it was encoded from.
DrainItem(nx, ek, batch, oc) ==
    IF ek.st # "ok" THEN Panic
    ELSE Drain(nx.v.it,
               Append(batch, [key |-> ek.v, value |-> NodeValueEncode(ItemNodeValue(nx.v.node)),
                              node |-> nx.v.state]),
               oc)

\* one turn of the loop: nx is what json_iter.next() gave
DrainNext(nx, batch, oc) ==
    IF nx.st # "ok" THEN Panic
    ELSE IF ~nx.v.some THEN Done([batch |-> batch, last_id |-> nx.v.it.last_id])
    ELSE DrainItem(nx, KeyEncode(nx.v.state, oc), batch, oc)

\* the `for (item, key) in json_iter` loop of insert_json, lib.rs:148-171
Drain(it, batch, oc) == DrainNext(JsonDfsIterNext(it, oc), batch, oc)

\* JsonDfsIter::new and the shredding loop: the batch of path records and the final last_id
Shred(root_value, k, last_id, oc) ==
    Drain([stack |-> <<[node |-> root_value, state |-> k]>>, is_root |-> TRUE, last_id |-> last_id],
          <<>>, oc)

----------------------------------------------------------------------------
(* The store (sled) and the process globals, store.rs and lib.rs:44-84 *)

\* b"~~METADATA~~", lib.rs:52
METADAT_KEY == <<126, 126, 77, 69, 84, 65, 68, 65, 84, 65, 126, 126>>

\* the directories of the file system, and the ones this process is given
AllPaths == {"p1", "p2"}
Paths == {"p1"}
NoPath == "unset"

EmptyTree == [k \in {} |-> <<>>]

\* sled::Tree::insert of one record
TreeInsert(tree, key, value) ==
    [k \in DOMAIN tree \cup {key} |-> IF k = key THEN value ELSE tree[k]]

\* sled::Tree::apply_batch: all the batch's inserts at once, a later insert of a key wins
ApplyBatch(tree, batch) ==
    LET ks == {batch[i].key : i \in DOMAIN batch}
    IN  [k \in DOMAIN tree \cup ks |->
            IF k \in ks
            THEN batch[CHOOSE i \in DOMAIN batch :
                          batch[i].key = k /\ \A j \in DOMAIN batch : j > i => batch[j].key # k].value
            ELSE tree[k]]

\* the path records of a tree: all but the metadata record
PathKeys(tree) == DOMAIN tree \ {METADAT_KEY}

\* the Key each path record of a store was encoded from, after one more batch: a record
\* written again takes the Key of the later write, as apply_batch keeps the later value
RecordNodes(nodes, batch) ==
    LET recs == {i \in DOMAIN batch : batch[i].key # METADAT_KEY}
        ks == {batch[i].key : i \in recs}
    IN  [k \in DOMAIN nodes \cup ks |->
            IF k \in ks
            THEN batch[CHOOSE i \in recs :
                          batch[i].key = k /\ \A j \in recs : j > i => batch[j].key # k].node
            ELSE nodes[k]]

\* the value of DATABASE: unset, Ok(RwLock<Database>) or Err(DBError)
DbUninit == [st |-> "uninit", err |-> "none", detail |-> "none", path |-> NoPath, metadata |-> MetadataNew]
DbOk(path, m) == [st |-> "ok", err |-> "none", detail |-> "none", path |-> path, metadata |-> m]
DbErr(e, d) == [st |-> "err", err |-> e, detail |-> d, path |-> NoPath, metadata |-> MetadataNew]

\* get_database, lib.rs:62-84: DATABASE.get_or_init.  fault = "sled" is a sled error of
\* Store::new, get_raw or set_raw.  Gives DATABASE and the disk after the call.
GetDatabaseCall(db, path, dsk, fault) ==
    IF db.st # "uninit" THEN [db |-> db, disk |-> dsk]
    ELSE IF path = NoPath THEN [db |-> DbErr("PathNotSet", "none"), disk |-> dsk]
    ELSE IF fault = "sled" THEN [db |-> DbErr("DatabaseInitError", "sled"), disk |-> dsk]
    ELSE IF METADAT_KEY \in DOMAIN dsk[path]
         THEN LET m == MetadataDecode(dsk[path][METADAT_KEY])
              IN  IF m.ok THEN [db |-> DbOk(path, m.v), disk |-> dsk]
                  ELSE [db |-> DbErr("KVError", m.err), disk |-> dsk]
         ELSE [db |-> DbOk(path, MetadataNew),
               disk |-> [dsk EXCEPT ![path] =
                            TreeInsert(dsk[path], METADAT_KEY, MetadataEncode(MetadataNew))]]

\* store.rs:45-51: Key::decode(&k)? and NodeValue::decode(&v)? of the record found
SuperNodeOf(key, node_value) ==
    IF key.st = "panic" THEN Panic
    ELSE IF key.st = "err" THEN Fail(key.err)
    ELSE IF node_value.st = "panic" THEN Panic
    ELSE IF node_value.st = "err" THEN Fail(node_value.err)
    ELSE Done([some |-> TRUE, key |-> key.v, value |-> node_value.v])

\* store.rs:42-44: range(prefix..).next(), the least record of the range
SuperNodeIn(tree, current, range, oc) ==
    IF range = {} THEN Done([some |-> FALSE, key |-> current, value |-> NodeValue("Null", <<>>)])
    ELSE SuperNodeOf(KeyDecode(CHOOSE x \in range : \A y \in range : LexLeq(x, y), oc),
                     NodeValueDecode(tree[CHOOSE x \in range : \A y \in range : LexLeq(x, y)]))

\* Store::get_super_node, store.rs:39-54: the first record at or after super_id_prefix
GetSuperNode(tree, current, fault, oc) ==
    IF fault = "sled" THEN Fail("sled")
    ELSE SuperNodeIn(tree, current, {k \in DOMAIN tree : LexLeq(SuperIdPrefix(current), k)}, oc)

----------------------------------------------------------------------------
(* insert_json, lib.rs:91-178 *)

\* what a call gives back: the result, the globals and the disk after it
Outcome(res, detail, db, dsk, committed, m) ==
    [res |-> res, detail |-> detail, db |-> db, disk |-> dsk, committed |-> committed,
     metadata |-> m, batch |-> <<>>]

\* lib.rs:105-117: the parent's kind against the key's terminal; sup is what
\* get_super_node gave
PlacementUnder(k, metadata, sup) ==
    IF sup.st = "panic" THEN Panic
    ELSE IF sup.st = "err" THEN Fail2("DatabaseStoreError", sup.err)
    ELSE IF ~sup.v.some THEN Fail2("NoSuperNode", "none")
    ELSE IF k.field_key.t = "Field" /\ ~IsObject(sup.v.value)
         THEN Fail2("InvalidSuperNodeType", "none")
    ELSE IF k.field_key.t = "Id" /\ ~IsArray(sup.v.value)
         THEN Fail2("InvalidSuperNodeType", "none")
    ELSE Done(metadata)

\* Placement without the roots.contains test of lib.rs:96: a variant the duplicate-root
\* property must tell from Placement
PlacementNoDuplicateCheck(key, k, metadata, tree, fault, oc) ==
    IF k.field_key.t = "Root"
    THEN Done([metadata EXCEPT !.roots = @ \cup {key}])
    ELSE IF Len(k.ids) < 2 THEN Fail2("NoSuperNode", "none")
    ELSE PlacementUnder(k, metadata, GetSuperNode(tree, k, fault, oc))

\* Placement without the ids.len() < 2 test of lib.rs:102-104: a variant the
\* short-id-list property must tell from Placement
PlacementNoIdCountCheck(key, k, metadata, tree, fault, oc) ==
    IF k.field_key.t = "Root"
    THEN IF key \in metadata.roots THEN Fail2("DuplicateRootKey", "none")
         ELSE Done([metadata EXCEPT !.roots = @ \cup {key}])
    ELSE IF Len(k.ids) < 2 THEN Done(metadata)
    ELSE PlacementUnder(k, metadata, GetSuperNode(tree, k, fault, oc))

\* lib.rs:95-118: placement validation on the working copy of the metadata
Placement(key, k, metadata, tree, fault, oc) ==
    IF k.field_key.t = "Root"
    THEN IF key \in metadata.roots THEN Fail2("DuplicateRootKey", "none")
         ELSE Done([metadata EXCEPT !.roots = @ \cup {key}])
    ELSE IF Len(k.ids) < 2 THEN Fail2("NoSuperNode", "none")
    ELSE PlacementUnder(k, metadata, GetSuperNode(tree, k, fault, oc))

\* CommitBatch publishing the working metadata (lib.rs:176) although apply_batch
\* (lib.rs:175) has failed: a variant the error-frame property must tell from CommitBatch
CommitBatchPublishFirst(m, betch, db, dsk, fault) ==
    IF fault = "sled"
    THEN Outcome("DatabaseInitError", "sled", [db EXCEPT !.metadata = m], dsk, FALSE, m)
    ELSE IF fault = "crash" THEN Outcome("crash", "none", db, dsk, FALSE, m)
    ELSE [Outcome("Ok", "none", [db EXCEPT !.metadata = m],
                  [dsk EXCEPT ![db.path] = ApplyBatch(dsk[db.path], betch)],
                  TRUE, m) EXCEPT !.batch = betch]

\* lib.rs:175-177: apply_batch(betch)?; db.metadata = metadata; Ok(())
CommitBatch(m, betch, db, dsk, fault) ==
    IF fault = "sled" THEN Outcome("DatabaseInitError", "sled", db, dsk, FALSE, m)
    ELSE IF fault = "crash" THEN Outcome("crash", "none", db, dsk, FALSE, m)
    ELSE [Outcome("Ok", "none", [db EXCEPT !.metadata = m],
                  [dsk EXCEPT ![db.path] = ApplyBatch(dsk[db.path], betch)],
                  TRUE, m) EXCEPT !.batch = betch]

\* lib.rs:172-174: the metadata record, with the counter the shredder left, ends the batch
AppendMetadata(m, batch, db, dsk, fault) ==
    CommitBatch(m, Append(batch, [key |-> METADAT_KEY, value |-> MetadataEncode(m)]), db, dsk, fault)

\* lib.rs:148-177 on the shredder's result sh
CommitShredded(sh, metadata, db, dsk, fault) ==
    IF sh.st # "ok" THEN Outcome("panic", "none", db, dsk, FALSE, metadata)
    ELSE AppendMetadata([metadata EXCEPT !.last_id = sh.v.last_id], sh.v.batch, db, dsk, fault)

\* lib.rs:119-177: parse, shred, append the metadata record, commit, publish
ShredAndCommit(k, doc, metadata, db, dsk, fault, oc) ==
    IF ~doc.parse_ok THEN Outcome("DatabaseJsonError", "none", db, dsk, FALSE, metadata)
    ELSE CommitShredded(Shred(doc.value, k, metadata.last_id, oc), metadata, db, dsk, fault)

\* InsertJsonPlaced with the JSON parse of lib.rs:119 moved before the look at the
\* result of placement: a variant the error-precedence property must tell from
\* InsertJsonPlaced
InsertJsonParseFirst(k, g, pl, doc, fault, oc) ==
    IF ~doc.parse_ok THEN Outcome("DatabaseJsonError", "none", g.db, g.disk, FALSE, MetadataNew)
    ELSE IF pl.st = "panic" THEN Outcome("panic", "none", g.db, g.disk, FALSE, MetadataNew)
    ELSE IF pl.st = "err" THEN Outcome(pl.err, pl.detail, g.db, g.disk, FALSE, MetadataNew)
    ELSE ShredAndCommit(k, doc, pl.v, g.db, g.disk, fault, oc)

\* insert_json from lib.rs:95 on: pl is the result of placement validation
InsertJsonPlaced(k, g, pl, doc, fault, oc) ==
    IF pl.st = "panic" THEN Outcome("panic", "none", g.db, g.disk, FALSE, MetadataNew)
    ELSE IF pl.st = "err" THEN Outcome(pl.err, pl.detail, g.db, g.disk, FALSE, MetadataNew)
    ELSE ShredAndCommit(k, doc, pl.v, g.db, g.disk, fault, oc)

\* insert_json from lib.rs:93 on: g is what get_database()? gave
InsertJsonOpened(key, k, g, doc, fault, oc) ==
    IF g.db.st = "err" THEN Outcome(g.db.err, g.db.detail, g.db, g.disk, FALSE, MetadataNew)
    ELSE InsertJsonPlaced(k, g, Placement(key, k, g.db.metadata, g.disk[g.db.path], fault, oc),
                          doc, fault, oc)

\* insert_json from lib.rs:92 on: k is the result of Key::decode(key)
InsertJsonDecoded(key, k, doc, fault, oc) ==
    IF k.st = "panic" THEN Outcome("panic", "none", DATABASE, disk, FALSE, MetadataNew)
    ELSE IF k.st = "err" THEN Outcome("KVError", k.err, DATABASE, disk, FALSE, MetadataNew)
    ELSE InsertJsonOpened(key, k.v, GetDatabaseCall(DATABASE, INIT_PATH, disk, fault),
                          doc, fault, oc)

\* insert_json(key, value): value is the parser's verdict on the bytes, [parse_ok, value]
InsertJsonCall(key, doc, fault, oc) == InsertJsonDecoded(key, KeyDecode(key, oc), doc, fault, oc)

----------------------------------------------------------------------------
(* The inputs of the model *)

\* {ids: [0], Root}, the key of the tests
KeyR0 == <<1, 0, 3>>
\* the same key followed by four more bytes, which KeyIndex::decode ignores after 0x03
KeyR0x == <<1, 0, 3, 255, 255, 255, 255>>
\* {ids: [1], Root}
KeyR1 == <<2, 0, 3>>
\* {ids: [u64::MAX - 1], Root}
KeyRMax == VarIdNew(U64Max) \o <<0, 3>>
\* {ids: [], Field("x")}
KeyShort == <<0, 1, 120>>
\* {ids: [0, 9], Field("x")}: a child of the node with id 0
KeyChildF == <<1, 10, 0, 1, 120>>
\* {ids: [0, 9], Id(0)}, the terminal in the length-prefixed form KeyIndex::decode reads
KeyChildI == <<1, 10, 0, 2, 1, 0>>
\* {ids: [127, 1], Field("x")}
KeyHigh == <<128, 1, 2, 0, 1, 120>>
\* a varint cut short (test_decode_key_invalid_length)
KeyBadLen == <<129>>

InsertKeys ==
    {KeyR0, KeyR0x, KeyR1, KeyRMax, KeyShort, KeyChildF, KeyChildI, KeyHigh, KeyBadLen}

I64(n) == JStatic("I64", n)
\* bytes simd_json rejects
DocBad == [parse_ok |-> FALSE, value |-> JStatic("Null", 0)]
\* {"a": 1}
DocA == [parse_ok |-> TRUE, value |-> JObject(<<Member(<<97>>, I64(1))>>)]
\* [1, 2]
DocArr == [parse_ok |-> TRUE, value |-> JArray(<<Member(<<>>, I64(1)), Member(<<>>, I64(2))>>)]

Docs == {DocBad, DocA, DocArr}

\* what the environment does to a call: nothing, a sled error at the first sled operation
\* the call reaches (open, range scan or apply_batch), or the process stopping right
\* before apply_batch
Faults == {"none", "sled", "crash"}

----------------------------------------------------------------------------
(* The process: one action per API call *)

NoProbe == [op |-> "none", ids |-> <<>>, field_key |-> Root, st |-> "none", err |-> "none",
            out_ids |-> <<>>, out_field_key |-> Root]

\* the last call of the API: its arguments and what it returned.  parse_ok is the
\* parser's verdict on the value argument of insert_json (TRUE for the other calls).
Call(op, key, res, detail) ==
    [op |-> op, key |-> key, res |-> res, detail |-> detail, parse_ok |-> TRUE]

\* the threads of the process: two that call insert_json once each, one that reads
Writers == {"w1", "w2"}
Readers == {"r1"}
NoThread == "none"

\* a thread that has not called yet.  pc is its position in insert_json (writers) or in
\* a read of the store under the read lock (readers); the other fields are its locals
\* and, for the properties, what it did: the ids make_sub_key gave it (allocated), the
\* writers in flight while it was (overlapped), the tree and metadata it read (seen).
ThreadIdle ==
    [pc |-> "idle", key |-> <<>>, k |-> MkKey(<<>>, Root), doc |-> JStatic("Null", 0),
     metadata |-> MetadataNew, batch |-> <<>>, res |-> "none", allocated |-> {},
     overlapped |-> {}, seen_tree |-> EmptyTree, seen_metadata |-> MetadataNew]

\* RwLock<Database>: the thread holding the write lock and the threads holding read
\* locks; snapshots are the (tree, metadata) pairs the Database held while unlocked
ThreadsInit ==
    [writer |-> NoThread, readers |-> {}, t |-> [x \in Writers \cup Readers |-> ThreadIdle],
     snapshots |-> {}]

Init ==
    /\ overflow_checks \in BOOLEAN
    /\ INIT_PATH = NoPath
    /\ DATABASE = DbUninit
    /\ disk = [p \in AllPaths |-> EmptyTree]
    /\ last = Call("none", <<>>, "none", "none")
    /\ commits = 0
    /\ restarts = 0
    /\ journal = [p \in AllPaths |->
                        [set |-> FALSE, m |-> MetadataNew, batch |-> <<>>, nodes |-> EmptyTree]]
    /\ probe = NoProbe
    /\ threads = ThreadsInit

\* set_database_path storing the path although one is set (a plain assignment in place
\* of OnceLock::set): a variant the set-once property must tell from SetDatabasePath
SetDatabasePathOverwrite(path) ==
    /\ INIT_PATH' = path
    /\ last' = Call("set_database_path", <<>>,
                    IF INIT_PATH = NoPath THEN "Ok" ELSE "PathAlreadySet", "none")
    /\ UNCHANGED <<overflow_checks, DATABASE, disk, commits, restarts, journal, probe, threads>>

\* set_database_path, lib.rs:55-59
SetDatabasePath(path) ==
    /\ IF INIT_PATH = NoPath
       THEN /\ INIT_PATH' = path
            /\ last' = Call("set_database_path", <<>>, "Ok", "none")
       ELSE /\ INIT_PATH' = INIT_PATH
            /\ last' = Call("set_database_path", <<>>, "PathAlreadySet", "none")
    /\ UNCHANGED <<overflow_checks, DATABASE, disk, commits, restarts, journal, probe, threads>>

\* get_database called on its own, lib.rs:62-84
GetDatabase(fault) ==
    \E g \in {GetDatabaseCall(DATABASE, INIT_PATH, disk, fault)} :
        /\ DATABASE' = g.db
        /\ disk' = g.disk
        /\ last' = Call("get_database", <<>>, IF g.db.st = "ok" THEN "Ok" ELSE g.db.err, g.db.detail)
        /\ UNCHANGED <<overflow_checks, INIT_PATH, commits, restarts, journal, probe, threads>>

\* insert_json, lib.rs:91-178.  A call that stops the process before apply_batch leaves
\* a new process with unset globals.
InsertJson(key, doc, fault) ==
    \E o \in {InsertJsonCall(key, doc, fault, overflow_checks)} :
        /\ o.committed => commits < MaxInserts
        /\ o.res = "crash" => restarts < MaxRestarts
        /\ disk' = o.disk
        /\ last' = [Call("insert_json", key, o.res, o.detail) EXCEPT !.parse_ok = doc.parse_ok]
        /\ commits' = IF o.committed THEN commits + 1 ELSE commits
        /\ journal' = IF o.committed
                      THEN [journal EXCEPT ![o.db.path] =
                                  [set |-> TRUE, m |-> o.metadata, batch |-> o.batch,
                                   nodes |-> RecordNodes(@.nodes, o.batch)]]
                      ELSE journal
        /\ IF o.res = "crash"
           THEN /\ INIT_PATH' = NoPath
                /\ DATABASE' = DbUninit
                /\ restarts' = restarts + 1
           ELSE /\ INIT_PATH' = INIT_PATH
                /\ DATABASE' = o.db
                /\ restarts' = restarts
        /\ UNCHANGED <<overflow_checks, probe, threads>>

\* the process ends and a new one starts: the globals are unset again, the disk stays
Restart ==
    /\ restarts < MaxRestarts
    /\ restarts' = restarts + 1
    /\ INIT_PATH' = NoPath
    /\ DATABASE' = DbUninit
    /\ last' = Call("restart", <<>>, "none", "none")
    /\ UNCHANGED <<overflow_checks, disk, commits, journal, probe, threads>>

Next ==
    \/ \E path \in Paths : SetDatabasePath(path)
    \/ \E fault \in {"none", "sled"} : GetDatabase(fault)
    \/ \E key \in InsertKeys, doc \in Docs, fault \in Faults : InsertJson(key, doc, fault)
    \/ Restart

Spec == Init /\ [][Next]_vars

----------------------------------------------------------------------------
(* The process with two directories to choose from: set_database_path may be *)
(* called with either, by a caller that inserts a few documents              *)

PathInsertKeys == {KeyR0, KeyR1, KeyShort}
PathDocs == {DocBad, DocA}

NextPaths ==
    \/ \E path \in AllPaths : SetDatabasePath(path)
    \/ \E fault \in {"none", "sled"} : GetDatabase(fault)
    \/ \E key \in PathInsertKeys, doc \in PathDocs, fault \in Faults : InsertJson(key, doc, fault)
    \/ Restart

SpecPaths == Init /\ [][NextPaths]_vars

----------------------------------------------------------------------------
(* Threads: insert_json split at the points where another thread can run,    *)
(* and a reader in the manner of lib.rs:204-209 and 256-260                  *)

\* [1, 2, 3]
Doc3 == [parse_ok |-> TRUE,
         value |-> JArray(<<Member(<<>>, I64(1)), Member(<<>>, I64(2)), Member(<<>>, I64(3))>>)]

ThreadKeys == {KeyR0, KeyR0x, KeyRMax}
ThreadDocs == {DocA, Doc3}

\* the writers between the call of insert_json and its return
InFlight == {y \in Writers : threads.t[y].pc \notin {"idle", "done"}}

\* the thread returns (or unwinds) with res; a guard it holds is dropped
Returned(x, res) == [threads.t[x] EXCEPT !.pc = "done", !.res = res]

\* the ids make_sub_key gave to the nodes of a batch shredded under the key k
AllocatedIds(batch, k) ==
    {ToU64(batch[i].node.ids[Len(batch[i].node.ids)]).v :
        i \in {j \in DOMAIN batch : Len(batch[j].node.ids) > Len(k.ids)}}

\* the Database as it is while no thread holds the write lock
Snapshot(db, dsk) == <<dsk[db.path], db.metadata>>

\* lib.rs:92-93: Key::decode(key)? and get_database()?, before the lock is asked for
InsertBegin(x, key, doc) ==
    /\ threads.t[x].pc = "idle"
    /\ \E k \in {KeyDecode(key, overflow_checks)} :
       \E g \in {GetDatabaseCall(DATABASE, INIT_PATH, disk, "none")} :
        IF k.st # "ok"
        THEN /\ threads' = [threads EXCEPT !.t[x] = [Returned(x, IF k.st = "panic" THEN "panic" ELSE "KVError")
                                                        EXCEPT !.key = key]]
             /\ UNCHANGED <<DATABASE, disk>>
        ELSE /\ DATABASE' = g.db
             /\ disk' = g.disk
             /\ IF g.db.st # "ok"
                THEN threads' = [threads EXCEPT !.t[x] = [Returned(x, g.db.err) EXCEPT !.key = key]]
                ELSE threads' =
                       [threads EXCEPT
                          !.t = [y \in DOMAIN @ |->
                                   IF y = x
                                   THEN [@[y] EXCEPT !.pc = "waiting", !.key = key, !.k = k.v,
                                                     !.doc = doc, !.overlapped = InFlight]
                                   ELSE IF y \in InFlight
                                        THEN [@[y] EXCEPT !.overlapped = @ \cup {x}]
                                        ELSE @[y]],
                          !.snapshots = IF DATABASE.st = "uninit"
                                        THEN @ \cup {Snapshot(g.db, g.disk)} ELSE @]
    /\ UNCHANGED <<overflow_checks, INIT_PATH, last, commits, restarts, journal, probe>>

\* lib.rs:93: .write() returns once no thread holds the lock
InsertLock(x) ==
    /\ threads.t[x].pc = "waiting"
    /\ threads.writer = NoThread
    /\ threads.readers = {}
    /\ threads' = [threads EXCEPT !.writer = x, !.t[x].pc = "locked"]
    /\ UNCHANGED <<overflow_checks, INIT_PATH, DATABASE, disk, last, commits, restarts, journal, probe>>

\* lib.rs:94: let mut metadata = db.metadata.clone()
InsertClone(x) ==
    /\ threads.t[x].pc = "locked"
    /\ threads' = [threads EXCEPT !.t[x].pc = "cloned", !.t[x].metadata = DATABASE.metadata]
    /\ UNCHANGED <<overflow_checks, INIT_PATH, DATABASE, disk, last, commits, restarts, journal, probe>>

\* the thread x leaves insert_json before apply_batch: the write guard is dropped
InsertAbandon(x, res) == [threads EXCEPT !.writer = NoThread, !.t[x] = Returned(x, res)]

\* lib.rs:148-174 on the shredder's result sh: the batch with the metadata record
InsertShredded(x, m, sh) ==
    IF sh.st # "ok" THEN InsertAbandon(x, "panic")
    ELSE [threads EXCEPT
            !.t[x].pc = "shredded",
            !.t[x].metadata = [m EXCEPT !.last_id = sh.v.last_id],
            !.t[x].allocated = AllocatedIds(sh.v.batch, threads.t[x].k),
            !.t[x].batch = Append(sh.v.batch,
                                  [key |-> METADAT_KEY,
                                   value |-> MetadataEncode([m EXCEPT !.last_id = sh.v.last_id])])]

\* lib.rs:95-119 on the result pl of placement validation
InsertPlaced(x, pl) ==
    IF pl.st = "panic" THEN InsertAbandon(x, "panic")
    ELSE IF pl.st = "err" THEN InsertAbandon(x, pl.err)
    ELSE IF ~threads.t[x].doc.parse_ok THEN InsertAbandon(x, "DatabaseJsonError")
    ELSE InsertShredded(x, pl.v, Shred(threads.t[x].doc.value, threads.t[x].k, pl.v.last_id,
                                       overflow_checks))

\* lib.rs:95-174: placement validation, parse and shredding on the clone
InsertShred(x) ==
    /\ threads.t[x].pc = "cloned"
    /\ threads' = InsertPlaced(x, Placement(threads.t[x].key, threads.t[x].k, threads.t[x].metadata,
                                            disk[DATABASE.path], "none", overflow_checks))
    /\ UNCHANGED <<overflow_checks, INIT_PATH, DATABASE, disk, last, commits, restarts, journal, probe>>

\* lib.rs:175: db.store.tree.apply_batch(betch)?
InsertApply(x) ==
    /\ threads.t[x].pc = "shredded"
    /\ disk' = [disk EXCEPT ![DATABASE.path] = ApplyBatch(@, threads.t[x].batch)]
    /\ journal' = [journal EXCEPT ![DATABASE.path] =
                      [set |-> TRUE, m |-> threads.t[x].metadata, batch |-> threads.t[x].batch,
                       nodes |-> RecordNodes(@.nodes, threads.t[x].batch)]]
    /\ threads' = [threads EXCEPT !.t[x].pc = "applied"]
    /\ UNCHANGED <<overflow_checks, INIT_PATH, DATABASE, last, commits, restarts, probe>>

\* lib.rs:176-178: db.metadata = metadata; Ok(()), and the write guard is dropped
InsertSwap(x) ==
    /\ threads.t[x].pc = "applied"
    /\ DATABASE' = [DATABASE EXCEPT !.metadata = threads.t[x].metadata]
    /\ threads' = [threads EXCEPT !.writer = NoThread, !.t[x] = Returned(x, "Ok"),
                                  !.snapshots = @ \cup {<<disk[DATABASE.path], threads.t[x].metadata>>}]
    /\ UNCHANGED <<overflow_checks, INIT_PATH, disk, last, commits, restarts, journal, probe>>

\* lib.rs:204, 257: get_database().unwrap().read() on a store that is open, returning
\* once no thread holds the write lock
ReadLock(x) ==
    /\ threads.t[x].pc = "idle"
    /\ DATABASE.st = "ok"
    /\ threads.writer = NoThread
    /\ threads' = [threads EXCEPT !.readers = @ \cup {x}, !.t[x].pc = "r_locked"]
    /\ UNCHANGED <<overflow_checks, INIT_PATH, DATABASE, disk, last, commits, restarts, journal, probe>>

\* lib.rs:206-209: db.store.tree.iter()
ReadTree(x) ==
    /\ threads.t[x].pc = "r_locked"
    /\ threads' = [threads EXCEPT !.t[x].pc = "r_tree", !.t[x].seen_tree = disk[DATABASE.path]]
    /\ UNCHANGED <<overflow_checks, INIT_PATH, DATABASE, disk, last, commits, restarts, journal, probe>>

\* lib.rs:258-260: db.metadata, then the read guard is dropped
ReadMetadata(x) ==
    /\ threads.t[x].pc = "r_tree"
    /\ threads' = [threads EXCEPT !.readers = @ \ {x},
                                  !.t[x] = [Returned(x, "Ok") EXCEPT !.seen_metadata = DATABASE.metadata]]
    /\ UNCHANGED <<overflow_checks, INIT_PATH, DATABASE, disk, last, commits, restarts, journal, probe>>

NextThreads ==
    \/ \E path \in Paths : SetDatabasePath(path)
    \/ \E x \in Writers, key \in ThreadKeys, doc \in ThreadDocs : InsertBegin(x, key, doc)
    \/ \E x \in Writers : InsertLock(x)
    \/ \E x \in Writers : InsertClone(x)
    \/ \E x \in Writers : InsertShred(x)
    \/ \E x \in Writers : InsertApply(x)
    \/ \E x \in Writers : InsertSwap(x)
    \/ \E x \in Readers : ReadLock(x)
    \/ \E x \in Readers : ReadTree(x)
    \/ \E x \in Readers : ReadMetadata(x)

SpecThreads == Init /\ [][NextThreads]_vars

----------------------------------------------------------------------------
(* test_insert_json, lib.rs:185-210: the document of the test inserted under *)
(* a root, next to a small document and a non-root key                       *)

\* {"a": 1, "b": 2, "c": [1, 2, 3], "d": {"e": 1, "f": 2}}
DocTest ==
    [parse_ok |-> TRUE,
     value |-> JObject(<<Member(<<97>>, I64(1)),
                         Member(<<98>>, I64(2)),
                         Member(<<99>>, JArray(<<Member(<<>>, I64(1)), Member(<<>>, I64(2)),
                                                 Member(<<>>, I64(3))>>)),
                         Member(<<100>>, JObject(<<Member(<<101>>, I64(1)),
                                                   Member(<<102>>, I64(2))>>))>>)]

TestKeys == {KeyR0, KeyR1, KeyChildF}
TestDocs == {DocTest, DocA}

NextTest ==
    \/ \E path \in Paths : SetDatabasePath(path)
    \/ \E fault \in {"none", "sled"} : GetDatabase(fault)
    \/ \E key \in TestKeys, doc \in TestDocs, fault \in Faults : InsertJson(key, doc, fault)
    \/ Restart

SpecTest == Init /\ [][NextTest]_vars

----------------------------------------------------------------------------
(* Root keys of more than 255 bytes: Key::decode reads {ids: [0], Root} from *)
(* the first three bytes and ignores the rest                                *)

\* {ids: [0], Root} in 256 bytes
KeyLongRoot == <<1, 0, 3>> \o [i \in 1..253 |-> 255]

LongRootKeys == {KeyR0, KeyR1, KeyLongRoot}
LongRootDocs == {DocBad, DocA}

NextLongRoot ==
    \/ \E path \in Paths : SetDatabasePath(path)
    \/ \E fault \in {"none", "sled"} : GetDatabase(fault)
    \/ \E key \in LongRootKeys, doc \in LongRootDocs, fault \in Faults : InsertJson(key, doc, fault)
    \/ Restart

SpecLongRoot == Init /\ [][NextLongRoot]_vars

----------------------------------------------------------------------------
(* The codecs on their own: Key::encode followed by Key::decode *)

ProbeIds == {0, 1, 127, 128, U64Max - 1, U64Max}

RECURSIVE IdLists(_)
IdLists(n) ==
    IF n = 0 THEN {<<>>}
    ELSE IdLists(n - 1) \cup {Append(l, VarIdNew(x)) : l \in IdLists(n - 1), x \in ProbeIds}

ProbeTerminals ==
    {Root, Field(<<>>), Field(<<97>>), Field(<<104, 105>>), Field(<<255>>),
     Id(VarIdNew(0)), Id(VarIdNew(5)), Id(VarIdNew(300))}

ProbeKeys == {MkKey(ids, fk) : ids \in IdLists(MaxProbeIds), fk \in ProbeTerminals}

\* Key::decode(&k.encode()), as test_encode_decode_multiple_ids does
KeyRoundTrip(k) ==
    LET e == KeyEncode(k, overflow_checks)
        d == IF e.st = "ok" THEN KeyDecode(e.v, overflow_checks) ELSE Panic
    IN  /\ probe = NoProbe
        /\ probe' = [op |-> "key_round_trip", ids |-> k.ids, field_key |-> k.field_key,
                     st |-> d.st, err |-> d.err,
                     out_ids |-> IF d.st = "ok" THEN d.v.ids ELSE <<>>,
                     out_field_key |-> IF d.st = "ok" THEN d.v.field_key ELSE Root]
        /\ UNCHANGED <<overflow_checks, INIT_PATH, DATABASE, disk, last, commits, restarts, journal, threads>>

UnchangedByProbe ==
    UNCHANGED <<overflow_checks, INIT_PATH, DATABASE, disk, last, commits, restarts, journal, threads>>

\* bytes that follow a varint in the buffer it is read from
ProbeTails == {<<>>, <<0, 3>>, <<129>>}

\* read_variable_sized_id(bytes of VariableSizedId::new(x), then tail) and to_u64 of
\* the id read, as test_to_u64 does
VarIdRoundTrip ==
    /\ probe = NoProbe
    /\ \E x \in 0..U64Max, tail \in ProbeTails :
       \E id \in {VarIdNew(x)} :
       \E r \in {ReadVariableSizedId(id \o tail)} :
       \E u \in {IF r.ok THEN ToU64(r.v.id) ELSE Err(r.err)} :
        /\ probe' = [op |-> "varid_round_trip", x |-> x, len |-> Len(id),
                     ok |-> r.ok /\ u.ok,
                     consumed |-> IF r.ok THEN r.v.consumed ELSE 0,
                     value |-> IF u.ok THEN u.v ELSE 0]
        /\ UnchangedByProbe

\* the metadata values probed: counters and sets of root keys of 0, 3, 7 and 255 bytes
LongRootKey == <<1, 0, 3>> \o [i \in 1..252 |-> 255]
ProbeRoots == {<<>>, <<1, 0, 3>>, <<2, 0, 3>>, <<1, 0, 3, 255, 255, 255, 255>>, LongRootKey}
ProbeMetadata ==
    {[version |-> 0, last_id |-> l, last_timestamp |-> t, roots |-> rs] :
        l \in {0, 5, U64Max}, t \in {0, 9}, rs \in SUBSET ProbeRoots}

\* Metadata::decode(&m.encode())
MetadataRoundTrip(m) ==
    /\ probe = NoProbe
    /\ \E d \in {MetadataDecode(MetadataEncode(m))} :
        /\ probe' = [op |-> "metadata_round_trip", m |-> m, ok |-> d.ok, err |-> d.err,
                     out |-> IF d.ok THEN d.v ELSE MetadataNew]
        /\ UnchangedByProbe

\* the NodeValues probed: every kind, numbers as their 8 big-endian bytes
ProbeNodeValues ==
    {NodeValue("Null", <<>>), NodeValue("Bool", 0), NodeValue("Bool", 1),
     NodeValue("Number", BE64(7)), NodeValue("NumberI", BE64(7)), NodeValue("NumberU", BE64(7)),
     NodeValue("String", <<>>), NodeValue("String", <<104, 105>>),
     NodeValue("String", <<49, 50, 51, 52, 53, 54, 55, 56>>),
     NodeValue("Array", <<>>), NodeValue("Object", <<>>)}

\* NodeValue::decode(&v.encode())
NodeValueRoundTrip(v) ==
    /\ probe = NoProbe
    /\ \E e \in {NodeValueEncode(v)} :
       \E d \in {NodeValueDecode(e)} :
        /\ probe' = [op |-> "node_value_round_trip", v |-> v, tag |-> e[1], st |-> d.st,
                     out |-> IF d.st = "ok" THEN d.v ELSE NodeValue("Null", <<>>)]
        /\ UnchangedByProbe

\* Key::encode(k): the id section (the biased ids) and the whole key
KeyEncodeCall(k) ==
    /\ probe = NoProbe
    /\ \E s \in {EncodeIds(k.ids, overflow_checks)} :
       \E e \in {KeyEncode(k, overflow_checks)} :
        /\ probe' = [op |-> "key_encode", ids |-> k.ids, field_key |-> k.field_key, st |-> e.st,
                     id_section |-> IF s.st = "ok" THEN s.v ELSE <<>>,
                     encoded |-> IF e.st = "ok" THEN e.v ELSE <<>>]
        /\ UnchangedByProbe

\* a key k1 (by its ids: the first n ids of k2) and a descendant k2: the super_id_prefix
\* of the child of k1 on the way to k2, and Key::encode(k2)
SuperPrefixCall(k2, n) ==
    /\ probe = NoProbe
    /\ n < Len(k2.ids)
    /\ \E child \in {MkKey(SubSeq(k2.ids, 1, n + 1), k2.field_key)} :
       \E e \in {KeyEncode(k2, overflow_checks)} :
        /\ probe' = [op |-> "super_prefix", k1_ids |-> SubSeq(k2.ids, 1, n), k2 |-> k2, st |-> e.st,
                     prefix |-> SuperIdPrefix(child),
                     encoded |-> IF e.st = "ok" THEN e.v ELSE <<>>]
        /\ UnchangedByProbe

\* Key::super_id_prefix of a key k with at least one id, next to what Key::encode writes
\* for the first n-1 ids and for the parent of k (the first n-1 ids, terminal pt)
SuperIdPrefixCall(k, pt) ==
    /\ probe = NoProbe
    /\ Len(k.ids) >= 1
    /\ \E s \in {EncodeIds(SubSeq(k.ids, 1, Len(k.ids) - 1), overflow_checks)} :
       \E e \in {KeyEncode(MkKey(SubSeq(k.ids, 1, Len(k.ids) - 1), pt), overflow_checks)} :
        /\ probe' = [op |-> "super_id_prefix", k |-> k, st |-> e.st,
                     prefix |-> SuperIdPrefix(k),
                     biased |-> IF s.st = "ok" THEN s.v \o <<SPLITOR>> ELSE <<>>,
                     parent_encoded |-> IF e.st = "ok" THEN e.v ELSE <<>>]
        /\ UnchangedByProbe

\* n bytes with the continuation bit set
Continuation(n) == [i \in 1..n |-> 129]

\* byte strings that open with an over-long or a truncated varint
ProbeVarints ==
    {Continuation(n) \o tail : n \in {1, 2, 9, 10, 11, 12}, tail \in {<<>>, <<1>>, <<1, 0, 3>>}}

\* read_variable_sized_id(data) and Key::decode(data) on the same bytes
ReadVarIdCall(data) ==
    /\ probe = NoProbe
    /\ \E r \in {ReadVariableSizedId(data)} :
       \E k \in {KeyDecode(data, overflow_checks)} :
        /\ probe' = [op |-> "read_variable_sized_id", data |-> data, ok |-> r.ok, err |-> r.err,
                     id |-> IF r.ok THEN r.v.id ELSE <<>>, key_st |-> k.st]
        /\ UnchangedByProbe

\* byte strings handed to NodeValue::decode: empty, a tag alone, a tag with a short
\* and with a full payload, tags that no variant has
ProbeNodeBytes ==
    {<<>>} \cup {<<tag>> \o payload : tag \in {0, 1, 2, 3, 4, 5, 6, 7, 8, 255},
                                     payload \in {<<>>, <<1>>, <<0, 0, 7>>, BE64(7)}}

\* NodeValue::decode(data)
NodeValueDecodeCall(data) ==
    /\ probe = NoProbe
    /\ \E d \in {NodeValueDecode(data)} :
        /\ probe' = [op |-> "node_value_decode", data |-> data, st |-> d.st, err |-> d.err]
        /\ UnchangedByProbe

NextCodec ==
    \/ \E k \in ProbeKeys : KeyRoundTrip(k)
    \/ VarIdRoundTrip
    \/ \E m \in ProbeMetadata : MetadataRoundTrip(m)
    \/ \E v \in ProbeNodeValues : NodeValueRoundTrip(v)
    \/ \E k \in ProbeKeys : KeyEncodeCall(k)
    \/ \E k \in ProbeKeys, n \in 0..(MaxProbeIds - 1) : SuperPrefixCall(k, n)
    \/ \E k \in ProbeKeys, pt \in ProbeTerminals : SuperIdPrefixCall(k, pt)
    \/ \E data \in ProbeVarints : ReadVarIdCall(data)
    \/ \E data \in ProbeNodeBytes : NodeValueDecodeCall(data)

SpecCodec == Init /\ [][NextCodec]_vars

----------------------------------------------------------------------------
(* The shredder on its own: JsonDfsIter with the closure of insert_json,     *)
(* lib.rs:120-171, run on a key, a parsed document and a value of last_id    *)

\* {ids: [0], Root}, {ids: [9, 0], Root}, {ids: [0, 9], Field("x")}
ShredKeys ==
    {MkKey(<<VarIdNew(0)>>, Root),
     MkKey(<<VarIdNew(9), VarIdNew(0)>>, Root),
     MkKey(<<VarIdNew(0), VarIdNew(9)>>, Field(<<120>>))}

\* 7, "hi", {}, [], [{}, []], {"a": {"b": []}}
ShredValues ==
    {I64(7),
     JString(<<104, 105>>),
     JObject(<<>>),
     JArray(<<>>),
     JArray(<<Member(<<>>, JObject(<<>>)), Member(<<>>, JArray(<<>>))>>),
     JObject(<<Member(<<97>>, JObject(<<Member(<<98>>, JArray(<<>>))>>))>>),
     DocA.value, DocArr.value, Doc3.value, DocTest.value}

\* metadata.last_id when the insert starts
ShredLastIds == {0, 3, 20, U64Max - 1}

\* the loop of lib.rs:148-171 on JsonDfsIter::new(&root_value, k, closure)
ShredCall(k, value, last_id) ==
    /\ probe = NoProbe
    /\ \E r \in {Shred(value, k, last_id, overflow_checks)} :
        /\ probe' = [op |-> "shred", k |-> k, value |-> value, last_id |-> last_id, st |-> r.st,
                     batch |-> IF r.st = "ok" THEN r.v.batch ELSE <<>>,
                     out_last_id |-> IF r.st = "ok" THEN r.v.last_id ELSE last_id]
        /\ UnchangedByProbe

NextShred == \E k \in ShredKeys, value \in ShredValues, last_id \in ShredLastIds : ShredCall(k, value, last_id)

SpecShred == Init /\ [][NextShred]_vars

----------------------------------------------------------------------------
(* JsonDfsIter with a closure that can fail, parse_iter.rs:39-184.  The      *)
(* iterator is [stack, is_root, error, calls]; the state T the closure gives *)
(* a node is its path from the root; the closure is an FnMut that counts its *)
(* calls and returns Err(n) on the calls n of fail_on.                       *)

\* Option<E>::None
NoError == 0

\* the calls of next() followed on one iterator
MaxNexts == 5

\* the calls on which the closure fails
IterFailSets == {{}, {1}, {2}, {3}, {2, 3}, {4}}

\* call_iter_fn, parse_iter.rs:80-88: Some(child_state), or None with self.error = Some(e)
CallIterFn(it, fail_on, child_state) ==
    IF (it.calls + 1) \in fail_on
    THEN [some |-> FALSE, state |-> <<>>, it |-> [it EXCEPT !.calls = @ + 1, !.error = it.calls + 1]]
    ELSE [some |-> TRUE, state |-> child_state, it |-> [it EXCEPT !.calls = @ + 1]]

\* `return Some(Err(self.error.take().unwrap()))`: take() leaves None in self.error
YieldErr(it) == [it |-> [it EXCEPT !.error = NoError], item |-> "err", e |-> it.error]

\* `Some(Ok((item, state)))`
YieldOk(it) == [it |-> it, item |-> "ok", e |-> NoError]

RECURSIVE IterMembers(_, _, _, _, _)
RECURSIVE IterMembersPush(_, _, _, _, _)
\* the member loop, parse_iter.rs:103-123 and 139-156: the closure on each member,
\* stack.push((v, child_state)), and the return on the first failure
IterMembers(node, idx, state, it, fail_on) ==
    IF idx > Len(node.members) THEN YieldOk(it)
    ELSE IterMembersPush(node, idx, state, CallIterFn(it, fail_on, Append(state, idx)), fail_on)

\* one turn of the member loop: c is what call_iter_fn gave
IterMembersPush(node, idx, state, c, fail_on) ==
    IF ~c.some THEN YieldErr(c.it)
    ELSE IterMembers(node, idx + 1, state,
                     [c.it EXCEPT !.stack = Append(@, [node |-> node.members[idx].v, state |-> c.state])],
                     fail_on)

\* next() after stack.pop() on a root node: c is what call_iter_fn gave for the root item
IterRoot(top, c, fail_on) ==
    IF ~c.some THEN YieldErr(c.it)
    ELSE IterMembers(top.node, 1, top.state, c.it, fail_on)

\* next() from `match node` on: popped is the iterator after stack.pop()
IterPopped(popped, is_root, top, fail_on) ==
    IF is_root THEN IterRoot(top, CallIterFn(popped, fail_on, top.state), fail_on)
    ELSE IterMembers(top.node, 1, top.state, popped, fail_on)

\* JsonDfsIter::next, parse_iter.rs:70-183
IterNext(it, fail_on) ==
    IF it.error # NoError THEN [it |-> it, item |-> "none", e |-> NoError]
    ELSE IF it.stack = <<>> THEN [it |-> it, item |-> "none", e |-> NoError]
    ELSE IterPopped([it EXCEPT !.stack = SubSeq(@, 1, Len(@) - 1), !.is_root = FALSE],
                    it.is_root, it.stack[Len(it.stack)], fail_on)

\* JsonDfsIter::new(&root_value, root_state, iter_fn), parse_iter.rs:54-61
IterNewCall(value, fail_on) ==
    /\ probe = NoProbe
    /\ probe' = [op |-> "iter", fail_on |-> fail_on, yields |-> <<>>,
                 it |-> [stack |-> <<[node |-> value, state |-> <<>>]>>, is_root |-> TRUE,
                         error |-> NoError, calls |-> 0]]
    /\ UnchangedByProbe

\* one call of next() by the owner of the iterator
IterNextCall ==
    /\ probe.op = "iter"
    /\ Len(probe.yields) < MaxNexts
    /\ \E r \in {IterNext(probe.it, probe.fail_on)} :
        probe' = [probe EXCEPT !.it = r.it, !.yields = Append(@, r.item)]
    /\ UnchangedByProbe

NextIter ==
    \/ \E value \in ShredValues, fail_on \in IterFailSets : IterNewCall(value, fail_on)
    \/ IterNextCall

SpecIter == Init /\ [][NextIter]_vars

----------------------------------------------------------------------------
(* Vocabulary of the properties *)

InsertStep == last'.op = "insert_json"

\* the step is a call that met no injected sled error and did not stop the process
FaultFree == last'.detail # "sled" /\ last'.res # "crash"

\* the store is open, or the next use of it opens it
OpensOk == GetDatabaseCall(DATABASE, INIT_PATH, disk, "none").db.st = "ok"

\* the tree a call works on once the store is open
OpenTree == GetDatabaseCall(DATABASE, INIT_PATH, disk, "none").disk[INIT_PATH]

\* the errors insert_json returns: key decode, placement, JSON parse, store commit
InsertErrors ==
    {"KVError", "DuplicateRootKey", "NoSuperNode", "InvalidSuperNodeType",
     "DatabaseJsonError", "DatabaseInitError"}

Decoded(key) == KeyDecode(key, overflow_checks)

IsRootKey(key) == Decoded(key).st = "ok" /\ Decoded(key).v.field_key.t = "Root"
IsNonRootKey(key) == Decoded(key).st = "ok" /\ Decoded(key).v.field_key.t # "Root"

PathRecordsSame == \A p \in AllPaths : \A k \in PathKeys(disk[p]) \cup PathKeys(disk'[p]) :
                       k \in DOMAIN disk[p] /\ k \in DOMAIN disk'[p] /\ disk'[p][k] = disk[p][k]

\* the tree is the old one, or the old one plus the initial metadata record of a first open
OnlyInitialMetadataWritten ==
    \A p \in AllPaths :
        \/ disk'[p] = disk[p]
        \/ /\ METADAT_KEY \notin DOMAIN disk[p]
           /\ disk'[p] = TreeInsert(disk[p], METADAT_KEY, MetadataEncode(MetadataNew))

----------------------------------------------------------------------------
(* C1 *)

\* C1, as stated: every call to insert_json that returns an error (key decode,
\* DuplicateRootKey, NoSuperNode, InvalidSuperNodeType, JSON parse, store commit)
\* leaves the KV store's records and the in-memory metadata exactly as they were.
C1_ErrorLeavesStoreUntouched ==
    [][(InsertStep /\ last'.res \in InsertErrors)
          => /\ disk' = disk
             /\ DATABASE.st = "ok" => DATABASE'.metadata = DATABASE.metadata]_vars

\* C1, amended: such a call leaves every path record and, once the store is open, the
\* stored metadata record and the in-memory metadata as they were; the only write it
\* can make is the initial metadata record that the implicit open puts into a store
\* which had none.
C1_ErrorLeavesDocumentsUntouched ==
    [][(InsertStep /\ last'.res \in InsertErrors)
          => /\ PathRecordsSame
             /\ OnlyInitialMetadataWritten
             /\ DATABASE.st = "ok" => (disk' = disk /\ DATABASE' = DATABASE)]_vars

\* C1 witness: an insert has failed with one of the errors on an open store that
\* already holds a committed document
C1_Witness ==
    /\ last.op = "insert_json"
    /\ last.res \in {"DatabaseJsonError", "DatabaseInitError", "InvalidSuperNodeType"}
    /\ DATABASE.st = "ok"
    /\ commits > 0

----------------------------------------------------------------------------
(* C2 *)

\* C2: after a successful insert with a Root key, inserting again with the same key
\* bytes and any JSON value fails with DuplicateRootKey, and neither the records nor
\* metadata.roots nor last_id change.  In steps: a successful root insert puts its key
\* bytes into the roots of the open store, the roots of an open store only grow, and
\* an insert whose key bytes are among them is rejected and changes nothing.
C2_DuplicateRootRejected ==
    [][/\ (InsertStep /\ last'.res = "Ok" /\ IsRootKey(last'.key))
              => (DATABASE'.st = "ok" /\ last'.key \in DATABASE'.metadata.roots)
       /\ (DATABASE.st = "ok" /\ DATABASE'.st = "ok")
              => DATABASE.metadata.roots \subseteq DATABASE'.metadata.roots
       /\ (InsertStep /\ DATABASE.st = "ok" /\ last'.key \in DATABASE.metadata.roots)
              => /\ last'.res = "DuplicateRootKey"
                 /\ disk' = disk
                 /\ DATABASE' = DATABASE]_vars

\* C2 witness: the key of a committed root was inserted again and rejected
C2_Witness ==
    /\ last.op = "insert_json"
    /\ last.res = "DuplicateRootKey"
    /\ DATABASE.st = "ok"
    /\ last.key \in DATABASE.metadata.roots
    /\ commits > 0

----------------------------------------------------------------------------
(* C3 *)

\* some root of the metadata decodes to the same Key as these key bytes
SameRootKnown(key, metadata) ==
    /\ IsRootKey(key)
    /\ \E r \in metadata.roots : IsRootKey(r) /\ Decoded(r).v = Decoded(key).v

\* C3, as stated: once an insert with Root key K has succeeded, every later insert
\* whose key bytes decode to the same K fails with DuplicateRootKey, whatever the raw
\* bytes are, so the record at encode(K) is never overwritten by a second root insert.
C3_RootUniqueOnDecodedKey ==
    [][(InsertStep /\ DATABASE.st = "ok" /\ SameRootKnown(last'.key, DATABASE.metadata))
          => (last'.res = "DuplicateRootKey" /\ disk' = disk)]_vars

----------------------------------------------------------------------------
(* C4 *)

PersistedLastId(tree) == FromBE64(SubSeq(tree[METADAT_KEY], 9, 16))

\* C4, as stated: over any sequence of insert_json calls the metadata last_id, in
\* memory and in the persisted metadata record, never decreases.
C4_LastIdNeverDecreases ==
    [][/\ (DATABASE.st = "ok" /\ DATABASE'.st = "ok")
              => DATABASE'.metadata.last_id >= DATABASE.metadata.last_id
       /\ \A p \in AllPaths :
              METADAT_KEY \in DOMAIN disk[p]
                  => /\ METADAT_KEY \in DOMAIN disk'[p]
                     /\ PersistedLastId(disk'[p]) >= PersistedLastId(disk[p])]_vars

----------------------------------------------------------------------------
(* C5 *)

\* the node identifier of a stored key: the final id of its id list
HasNodeId(k) == Decoded(k).st = "ok" /\ Decoded(k).v.ids # <<>>
NodeId(k) == Decoded(k).v.ids[Len(Decoded(k).v.ids)]

\* C5, as stated: no two stored nodes carry the same node identifier, root nodes with
\* a caller-supplied identifier included.
C5_NodeIdsUnique ==
    \A p \in AllPaths : \A k1, k2 \in PathKeys(disk[p]) :
        (k1 # k2 /\ HasNodeId(k1) /\ HasNodeId(k2)) => NodeId(k1) # NodeId(k2)

----------------------------------------------------------------------------
(* C6 *)

\* the step opens, with no sled error, a store in which an insert was committed
ReopenStep ==
    /\ last'.op = "get_database"
    /\ last'.detail # "sled"
    /\ DATABASE.st = "uninit"
    /\ INIT_PATH # NoPath
    /\ journal[INIT_PATH].set

\* C6, as stated: after a successful insert, stopping the process and opening the store
\* again succeeds and loads the last_id and roots that insert committed, with all the
\* records of the inserted document present; a process that stops before the batch
\* commits leaves none of the document's records and the old last_id.
C6_ReopenLoadsCommitted ==
    [][/\ ReopenStep
              => /\ DATABASE'.st = "ok"
                 /\ DATABASE'.metadata.last_id = journal[INIT_PATH].m.last_id
                 /\ DATABASE'.metadata.roots = journal[INIT_PATH].m.roots
                 /\ \A i \in DOMAIN journal[INIT_PATH].batch :
                        /\ journal[INIT_PATH].batch[i].key \in DOMAIN disk'[INIT_PATH]
                        /\ disk'[INIT_PATH][journal[INIT_PATH].batch[i].key]
                               = journal[INIT_PATH].batch[i].value
       /\ (InsertStep /\ last'.res = "crash") => PathRecordsSame /\ OnlyInitialMetadataWritten]_vars

----------------------------------------------------------------------------
(* C7 *)

ObjectMarker == NodeValueEncode(NodeValue("Object", <<>>))
ArrayMarker == NodeValueEncode(NodeValue("Array", <<>>))

\* the ids of the parent of a key: all but the last
ParentIds(k) == SubSeq(k.ids, 1, Len(k.ids) - 1)

\* the records of the tree that hold the parent node of the key
ParentRecords(key, tree) ==
    {pk \in PathKeys(tree) : Decoded(pk).st = "ok" /\ Decoded(pk).v.ids = ParentIds(Decoded(key).v)}

\* the call went past placement validation: it ended in the parser, the shredder or the commit
PlacementPassed == last'.res \in {"Ok", "DatabaseJsonError", "panic", "crash"}

\* a non-root insert with two or more ids, on a store that is or can be opened, with no
\* sled error
NonRootInsertStep ==
    /\ InsertStep
    /\ last'.detail # "sled"
    /\ OpensOk
    /\ IsNonRootKey(last'.key)
    /\ Len(Decoded(last'.key).v.ids) >= 2

\* C7, as stated: for a non-root insert whose parent node was committed by an earlier
\* insert, placement validation passes exactly when the parent is an Object marker and
\* the terminal is Field, or the parent is an Array marker and the terminal is Id;
\* every other combination fails with InvalidSuperNodeType.
C7_PlacementByParentKind ==
    [][NonRootInsertStep
          => \A pk \in ParentRecords(last'.key, OpenTree) :
                 IF \/ OpenTree[pk] = ObjectMarker /\ Decoded(last'.key).v.field_key.t = "Field"
                    \/ OpenTree[pk] = ArrayMarker /\ Decoded(last'.key).v.field_key.t = "Id"
                 THEN PlacementPassed
                 ELSE last'.res = "InvalidSuperNodeType"]_vars

----------------------------------------------------------------------------
(* C8 *)

\* an insert with a non-Root terminal and fewer than two ids, on a store that is or can
\* be opened, with no sled error
ShortInsertStep ==
    /\ InsertStep
    /\ last'.detail # "sled"
    /\ OpensOk
    /\ IsNonRootKey(last'.key)
    /\ Len(Decoded(last'.key).v.ids) < 2

\* C8, as stated: an insert whose key has a non-Root terminal and an id list of fewer
\* than two ids fails with NoSuperNode, and the store and metadata are unchanged.
C8_ShortKeyLeavesStoreUntouched ==
    [][ShortInsertStep
          => /\ last'.res = "NoSuperNode"
             /\ disk' = disk
             /\ DATABASE.st = "ok" => DATABASE'.metadata = DATABASE.metadata]_vars

\* C8, amended: such an insert, on a store that is open or that the call can open,
\* fails with NoSuperNode and leaves every path record and, once the store is open, the
\* stored metadata record and the in-memory metadata as they were; the only write it
\* can make is the initial metadata record that the implicit open puts into a store
\* which had none.
C8_ShortKeyNoSuperNode ==
    [][ShortInsertStep
          => /\ last'.res = "NoSuperNode"
             /\ PathRecordsSame
             /\ OnlyInitialMetadataWritten
             /\ DATABASE'.st = "ok"
             /\ DATABASE'.metadata = GetDatabaseCall(DATABASE, INIT_PATH, disk, "none").db.metadata
             /\ DATABASE.st = "ok" => (disk' = disk /\ DATABASE' = DATABASE)]_vars

\* C8 witness: a key with no ids and terminal Field was rejected with NoSuperNode on an
\* open store that holds a committed document
C8_Witness ==
    /\ last.op = "insert_json"
    /\ last.key = KeyShort
    /\ last.res = "NoSuperNode"
    /\ DATABASE.st = "ok"
    /\ commits > 0

----------------------------------------------------------------------------
(* C9 *)

\* C9, as stated: a non-root insert (two or more ids, terminal Field or Id) whose parent
\* node has no record in the store fails with NoSuperNode, in particular in a store
\* that holds only the metadata record or only records of unrelated documents.
C9_MissingParentNoSuperNode ==
    [][(NonRootInsertStep /\ ParentRecords(last'.key, OpenTree) = {})
          => last'.res = "NoSuperNode"]_vars

----------------------------------------------------------------------------
(* C10 *)

\* C10, as stated: for every Key K with any id list (the empty one included) and any
\* terminal Field(bytes), Id(VarId) or Root, Key::decode(Key::encode(K)) returns a key
\* with the same id list and the same terminal as K.
C10_KeyRoundTrip ==
    probe.op = "key_round_trip"
        => /\ probe.st = "ok"
           /\ probe.out_ids = probe.ids
           /\ probe.out_field_key = probe.field_key

----------------------------------------------------------------------------
(* C11 *)

\* C11: for every unsigned integer x of the id width, reading a VarId from the bytes of
\* VariableSizedId::new(x) gives a VarId whose to_u64 is x and a consumed count equal
\* to the length of the encoding, and that length is between 1 and 10 bytes.
C11_VarIdRoundTrip ==
    probe.op = "varid_round_trip"
        => /\ probe.ok
           /\ probe.value = probe.x
           /\ probe.consumed = probe.len
           /\ probe.len >= 1
           /\ probe.len <= MaxVarIdBytes

\* C11 witness: the largest value of the id width, whose encoding has several bytes,
\* was written and read back
C11_Witness ==
    /\ probe.op = "varid_round_trip"
    /\ probe.x = U64Max
    /\ probe.len > 1
    /\ probe.consumed = probe.len

----------------------------------------------------------------------------
(* C12 *)

\* C12, as stated: for every Metadata M whose root keys are each at most 255 bytes long,
\* Metadata::decode(M.encode()) succeeds and returns the same version, last_id,
\* last_timestamp and set of roots.
C12_MetadataRoundTrip ==
    (probe.op = "metadata_round_trip" /\ \A r \in probe.m.roots : Len(r) <= 255)
        => /\ probe.ok
           /\ probe.out = probe.m

----------------------------------------------------------------------------
(* C13 *)

\* the tag table of the specification
TagOf(kind) ==
    CASE kind = "Null" -> 0
      [] kind = "Bool" -> 1
      [] kind = "Number" -> 2
      [] kind = "NumberI" -> 3
      [] kind = "NumberU" -> 4
      [] kind = "String" -> 5
      [] kind = "Array" -> 6
      [] OTHER -> 7

\* C13, as stated: NodeValue encoding follows the 0..7 tag table (0 Null, 1 Bool, 2 F64,
\* 3 I64, 4 U64, 5 String, 6 Array, 7 Object), so that
\* NodeValue::decode(NodeValue::encode(v)) returns the same kind and payload as v for
\* every NodeValue v, String, Array and Object included.
C13_NodeValueTags ==
    probe.op = "node_value_round_trip"
        => /\ probe.tag = TagOf(probe.v.kind)
           /\ probe.st = "ok"
           /\ probe.out = probe.v

----------------------------------------------------------------------------
(* C14 *)

\* C14, as stated: for every Key K whose ids are any values of the id width, the maximum
\* included, no byte of the id section of Key::encode(K) is 0x00, so the first 0x00 byte
\* of the encoded key is the separator between the id list and the terminal.
C14_NoZeroByteInIds ==
    (probe.op = "key_encode" /\ probe.st = "ok")
        => /\ \A i \in 1..Len(probe.id_section) : probe.id_section[i] # 0
           /\ probe.encoded[Len(probe.id_section) + 1] = SPLITOR
           /\ \A i \in 1..Len(probe.id_section) : probe.encoded[i] # 0

----------------------------------------------------------------------------
(* C15 *)

IsPrefix(p, b) == Len(p) <= Len(b) /\ SubSeq(b, 1, Len(p)) = p

\* C15, as stated: for any two keys K1 and K2 where K2 is a descendant of K1, the
\* super-prefix of a child of K1 is a byte-prefix of Key::encode(K2).
C15_SuperPrefixIsPrefix ==
    (probe.op = "super_prefix" /\ probe.st = "ok")
        => IsPrefix(probe.prefix, probe.encoded)

----------------------------------------------------------------------------
(* C16 *)

\* the id list b properly extends the id list a
IdsExtend(a, b) == Len(b) > Len(a) /\ SubSeq(b, 1, Len(a)) = a

\* the stored keys of the descendants of the node stored at key K of the store at p
DescendantKeys(p, K) ==
    {k \in DOMAIN journal[p].nodes : IdsExtend(journal[p].nodes[K].ids, journal[p].nodes[k].ids)}

\* a stored key of the store at p that is no descendant of K sorts between two
\* descendants of K
SplitsDescendants(p, K) ==
    \E d1, d2 \in DescendantKeys(p, K) : \E x \in DOMAIN disk[p] \ DescendantKeys(p, K) :
        LexLess(d1, x) /\ LexLess(x, d2)

\* C16, as stated: in every store state reachable by successful inserts, for every
\* stored node K the stored keys of the descendants of K (the keys whose id list
\* properly extends K.ids) form one contiguous run in lexicographic byte order: no
\* stored key that is not a descendant of K sorts between two descendants of K.
C16_DescendantsContiguous ==
    \A p \in AllPaths : \A K \in DOMAIN journal[p].nodes : ~SplitsDescendants(p, K)

----------------------------------------------------------------------------
(* C17 *)

SetPathStep == last'.op = "set_database_path"

\* the step stays in one process: no restart, no stop before apply_batch
SameProcess == restarts' = restarts

\* C17: the database path can be set exactly once per process: a set_database_path
\* call on an unset path succeeds and sets it, every later call of the process fails
\* with PathAlreadySet, the path stays the first one as long as the process runs, and
\* the store that is open is the one at that path.
C17_PathSetOnce ==
    [][/\ (SetPathStep /\ INIT_PATH = NoPath) => (last'.res = "Ok" /\ INIT_PATH' \in AllPaths)
       /\ (SetPathStep /\ INIT_PATH # NoPath) => last'.res = "PathAlreadySet"
       /\ (SameProcess /\ INIT_PATH # NoPath) => INIT_PATH' = INIT_PATH
       /\ DATABASE'.st = "ok" => DATABASE'.path = INIT_PATH']_vars

\* a second set_database_path was refused on a process whose store is open and holds
\* a committed document
C17_Witness ==
    /\ last.op = "set_database_path"
    /\ last.res = "PathAlreadySet"
    /\ DATABASE.st = "ok"
    /\ DATABASE.path = INIT_PATH
    /\ commits > 0

----------------------------------------------------------------------------
(* C18 *)

\* the step is a use of the store: get_database, or an insert_json whose key decodes
UseStep ==
    \/ last'.op = "get_database"
    \/ InsertStep /\ Decoded(last'.key).st = "ok"

\* get_database run on unset globals would open the store of the path that is set
FreshOpenOk == GetDatabaseCall(DbUninit, INIT_PATH, disk, "none").db.st = "ok"

\* C18, as stated: PathNotSet is recoverable: a first use of the store (get_database
\* or insert_json) before any path was set fails with PathNotSet, and after a later
\* successful set_database_path the next use opens the store and succeeds.
C18_PathNotSetRecoverable ==
    [][/\ (UseStep /\ DATABASE.st = "uninit" /\ INIT_PATH = NoPath) => last'.res = "PathNotSet"
       /\ (UseStep /\ FaultFree /\ DATABASE.err = "PathNotSet" /\ INIT_PATH # NoPath /\ FreshOpenOk)
              => (DATABASE'.st = "ok" /\ last'.res # "PathNotSet")]_vars

----------------------------------------------------------------------------
(* C19 *)

\* the writers between cloning the metadata and swapping it back
BetweenCloneAndSwap == {x \in Writers : threads.t[x].pc \in {"cloned", "shredded", "applied"}}

\* two inserts that were in flight at the same time and both returned Ok
ConcurrentSuccesses(x, y) ==
    /\ x # y
    /\ y \in threads.t[x].overlapped
    /\ threads.t[x].pc = "done" /\ threads.t[x].res = "Ok"
    /\ threads.t[y].pc = "done" /\ threads.t[y].res = "Ok"

SameRootKey(x, y) ==
    /\ threads.t[x].k.field_key = Root
    /\ threads.t[x].k = threads.t[y].k

\* at most one insert is between cloning the metadata and swapping it back
WriterExclusion == Cardinality(BetweenCloneAndSwap) <= 1

\* a reader that has read the tree and the metadata under one read lock saw a pair
\* the Database held while no writer had the lock
ReaderAtomicity ==
    \A x \in Readers :
        threads.t[x].pc = "done"
            => <<threads.t[x].seen_tree, threads.t[x].seen_metadata>> \in threads.snapshots

\* C19, as stated: inserts issued from several threads are serialized by the writer
\* lock: at most one insert is between cloning the metadata and swapping it back at any
\* time, so the id ranges allocated by two concurrent successful inserts are disjoint,
\* two concurrent inserts of the same root key never both succeed, and a reader holding
\* the read lock sees the store and metadata either entirely before or entirely after
\* an insert.
C19_WriterLockSerializes ==
    /\ WriterExclusion
    /\ \A x, y \in Writers :
           ConcurrentSuccesses(x, y)
               => /\ threads.t[x].allocated \cap threads.t[y].allocated = {}
                  /\ ~SameRootKey(x, y)
    /\ ReaderAtomicity

----------------------------------------------------------------------------
(* C20 *)

\* the step inserts the document of test_insert_json under a root key, with no fault,
\* into a store that holds no path record, and commits
TestDocInsertStep ==
    /\ INIT_PATH # NoPath
    /\ PathKeys(disk[INIT_PATH]) = {}
    /\ \E key \in TestKeys : IsRootKey(key) /\ InsertJson(key, DocTest, "none")
    /\ last'.res = "Ok"

\* the path records of the store after the step whose Key has n ids and a terminal of
\* kind t, holding one of the values vs
RecordsAt(n, t, vs) ==
    {k \in PathKeys(disk'[INIT_PATH]) :
        /\ Len(journal'[INIT_PATH].nodes[k].ids) = n
        /\ journal'[INIT_PATH].nodes[k].field_key.t = t
        /\ disk'[INIT_PATH][k] \in vs}

IntegerLeaves == {NodeValueEncode(NodeValue("NumberI", BE64(n))) : n \in 1..3}

\* C20, as stated: inserting a root with the document {"a":1,"b":2,"c":[1,2,3],
\* "d":{"e":1,"f":2}} into a fresh store commits 12 path records plus the metadata
\* record.
C20_TwelveRecords ==
    [][TestDocInsertStep
          => /\ Cardinality(PathKeys(disk'[INIT_PATH])) = 12
             /\ METADAT_KEY \in DOMAIN disk'[INIT_PATH]]_vars

\* C20, amended: the insert commits 10 path records plus the metadata record: the
\* object marker at the root; the 4 field children of the root, which are the integer
\* leaves a and b, the array marker c and the object marker d; 3 integer leaves under
\* c; 2 integer leaves under d.  The markers of c and d are the records of those two
\* field children, not records of their own.
C20_TenRecords ==
    [][TestDocInsertStep
          => /\ Cardinality(PathKeys(disk'[INIT_PATH])) = 10
             /\ METADAT_KEY \in DOMAIN disk'[INIT_PATH]
             /\ Cardinality(RecordsAt(1, "Root", {ObjectMarker})) = 1
             /\ Cardinality(RecordsAt(2, "Field", IntegerLeaves)) = 2
             /\ Cardinality(RecordsAt(2, "Field", {ArrayMarker})) = 1
             /\ Cardinality(RecordsAt(2, "Field", {ObjectMarker})) = 1
             /\ Cardinality(RecordsAt(3, "Id", IntegerLeaves)) = 3
             /\ Cardinality(RecordsAt(3, "Field", IntegerLeaves)) = 2]_vars

\* the document of the test was committed to a store that held no path record: a batch
\* of 10 path records and the metadata record
C20_Witness ==
    /\ last.op = "insert_json"
    /\ last.res = "Ok"
    /\ commits = 1
    /\ INIT_PATH # NoPath
    /\ journal[INIT_PATH].set
    /\ Len(journal[INIT_PATH].batch) = 11
    /\ Cardinality(PathKeys(disk[INIT_PATH])) = 10

----------------------------------------------------------------------------
(* C21 *)

\* the step inserts {"a": 1} under {ids: [0], Root}, with no fault, into a store that
\* is fresh (last_id 0, no roots, no path record), and succeeds
FreshRootInsertStep ==
    /\ INIT_PATH # NoPath
    /\ OpensOk
    /\ GetDatabaseCall(DATABASE, INIT_PATH, disk, "none").db.metadata = MetadataNew
    /\ PathKeys(OpenTree) = {}
    /\ InsertJson(KeyR0, DocA, "none")
    /\ last'.res = "Ok"

\* encode({ids: [0, 1], Field("a")}), the key of the member when it is given id 1
KeyR0ChildA == <<1, 2, 0, 1, 97>>

\* the roots and the two path records the step leaves
FreshRootInsertRecords ==
    /\ DATABASE'.metadata.roots = {KeyR0}
    /\ Cardinality(PathKeys(disk'[INIT_PATH])) = 2
    /\ KeyR0 \in DOMAIN disk'[INIT_PATH]
    /\ disk'[INIT_PATH][KeyR0] = ObjectMarker
    /\ \E c \in PathKeys(disk'[INIT_PATH]) \ {KeyR0} :
           disk'[INIT_PATH][c] = NodeValueEncode(NodeValue("NumberI", BE64(1)))

\* C21, as stated: in a freshly created store a successful insert of the root key
\* {ids: [0], Root} with the document {"a": 1} leaves last_id >= 2, metadata.roots equal
\* to exactly {encode(K)}, and exactly two path records: an Object marker at encode(K)
\* and an integer 1 at the child key.
C21_FreshRootInsertLastIdTwo ==
    [][FreshRootInsertStep
          => (DATABASE'.metadata.last_id >= 2 /\ FreshRootInsertRecords)]_vars

\* C21, amended: the insert leaves last_id = 1 (the root keeps the caller's id 0, only
\* the member is given an id), the member at encode({ids: [0, 1], Field("a")}), and
\* the roots and the two path records as stated.
C21_FreshRootInsertLastIdOne ==
    [][FreshRootInsertStep
          => /\ DATABASE'.metadata.last_id = 1
             /\ PersistedLastId(disk'[INIT_PATH]) = 1
             /\ KeyR0ChildA \in DOMAIN disk'[INIT_PATH]
             /\ FreshRootInsertRecords]_vars

\* {"a": 1} was committed under {ids: [0], Root} as the first batch of a store
C21_Witness ==
    /\ last = Call("insert_json", KeyR0, "Ok", "none")
    /\ commits = 1
    /\ DATABASE.st = "ok"
    /\ DATABASE.metadata.roots = {KeyR0}
    /\ PathKeys(disk[DATABASE.path]) = {KeyR0, KeyR0ChildA}

----------------------------------------------------------------------------
(* C22 *)

\* the root records of a metadata record with, for each root, its true length
RECURSIVE RootsWithTrueLength(_)
RootsWithTrueLength(rs) ==
    IF rs = <<>> THEN <<>>
    ELSE <<Len(Head(rs))>> \o Head(rs) \o RootsWithTrueLength(Tail(rs))

\* the metadata record of the tree holds, for every root of m, the root's true length
LengthBytesTrue(tree, m) ==
    tree[METADAT_KEY] = BE64(m.version) \o BE64(m.last_id) \o BE64(m.last_timestamp)
                            \o RootsWithTrueLength(SetToSeq(m.roots))

\* C22, as stated: an insert whose root key is longer than 255 bytes fails before any
\* metadata record is encoded or written; consequently the length byte written for
\* every root in the persisted metadata equals that root key's true length.
C22_LongRootKeyRejected ==
    [][/\ (InsertStep /\ FaultFree /\ IsRootKey(last'.key) /\ Len(last'.key) > 255)
              => /\ last'.res # "Ok"
                 /\ PathRecordsSame
                 /\ OnlyInitialMetadataWritten
       /\ \A p \in AllPaths :
              journal'[p].set => LengthBytesTrue(disk'[p], journal'[p].m)]_vars

----------------------------------------------------------------------------
(* C23 *)

\* C23, as stated: for every Key K with ids id_1..id_n (n >= 1), super_id_prefix(K)
\* returns VarId(id_1+1) .. VarId(id_{n-1}+1) followed by 0x00, the biased id bytes
\* Key::encode writes for the first n-1 ids followed by the separator, so it is a
\* byte-prefix of the encoded key of the parent of K.
C23_SuperIdPrefixBiased ==
    (probe.op = "super_id_prefix" /\ probe.st = "ok")
        => /\ probe.prefix = probe.biased
           /\ IsPrefix(probe.prefix, probe.parent_encoded)

----------------------------------------------------------------------------
(* C24 *)

RECURSIVE CountNodes(_, _)
RECURSIVE CountMembers(_, _, _)
\* the nodes of a JSON value whose kind is in kinds
CountNodes(value, kinds) ==
    (IF value.t \in kinds THEN 1 ELSE 0) + CountMembers(value.members, 1, kinds)
CountMembers(members, i, kinds) ==
    IF i > Len(members) THEN 0
    ELSE CountNodes(members[i].v, kinds) + CountMembers(members, i + 1, kinds)

AllKinds == {"Object", "Array", "String", "Static"}

\* the records of the probe's batch after the first, and the final id of a record's key
NonRootRecords == 2..Len(probe.batch)
FinalId(i) == ToU64(probe.batch[i].node.ids[Len(probe.batch[i].node.ids)]).v

\* the ids the traversal allocated: one per node below the top-level value, counting on
\* from last_id raised to the last id of the key
ShredAllocated ==
    {(RaiseLastId(probe.k, probe.last_id) + i) % U64Modulus :
        i \in 1..(CountNodes(probe.value, AllKinds) - 1)}

\* record i lies under record j: j is a container marker, and the key of i is the key
\* of j extended by one id, with the terminal of a member of that container
RecordUnder(i, j) ==
    /\ probe.batch[i].node.ids = Append(probe.batch[j].node.ids, VarIdNew(FinalId(i)))
    /\ \/ probe.batch[j].value = ObjectMarker /\ probe.batch[i].node.field_key.t = "Field"
       \/ probe.batch[j].value = ArrayMarker /\ probe.batch[i].node.field_key.t = "Id"

\* C24, as stated: shredding a finite JSON document terminates and emits exactly one
\* (key, value) record per JSON node: the first emitted record is the root at the
\* caller's key with the kind of the top-level value, every id allocated during the
\* traversal is the final id of exactly one emitted key, every emitted non-root key is
\* its container's id list extended by one fresh id, and every container (an empty one
\* included) gets an Array or Object marker record.
C24_OneRecordPerNode ==
    probe.op = "shred"
        => /\ probe.st = "ok"
           /\ Len(probe.batch) = CountNodes(probe.value, AllKinds)
           /\ probe.batch[1].node = probe.k
           /\ probe.batch[1].value = NodeValueEncode(ItemNodeValue(probe.value))
           /\ \A id \in ShredAllocated :
                  Cardinality({i \in DOMAIN probe.batch : FinalId(i) = id}) = 1
           /\ \A i \in NonRootRecords :
                  /\ FinalId(i) \in ShredAllocated
                  /\ \E j \in DOMAIN probe.batch : RecordUnder(i, j)
           /\ Cardinality({i \in DOMAIN probe.batch : probe.batch[i].value = ObjectMarker})
                  = CountNodes(probe.value, {"Object"})
           /\ Cardinality({i \in DOMAIN probe.batch : probe.batch[i].value = ArrayMarker})
                  = CountNodes(probe.value, {"Array"})

----------------------------------------------------------------------------
(* C25 *)

\* the ids of the key the probe shredded under, as numbers
KeyIdValues == {ToU64(probe.k.ids[i]).v : i \in DOMAIN probe.k.ids}

\* C25, as stated: before the shredder allocates its first id in an insert with key K,
\* the working counter is raised to at least every id in K's id list (not only the
\* last one), so after a successful insert last_id is greater than or equal to every id
\* appearing in K.ids and every allocated id is greater than all of them.
C25_CounterRaisedAboveKeyIds ==
    (probe.op = "shred" /\ probe.st = "ok")
        => /\ \A id \in KeyIdValues : probe.out_last_id >= id
           /\ \A i \in NonRootRecords : \A id \in KeyIdValues : FinalId(i) > id

----------------------------------------------------------------------------
(* C26 *)

\* the first n bytes of the probe's data are there and have the continuation bit set
OpensWithContinuation(n) ==
    Len(probe.data) >= n /\ \A i \in 1..n : probe.data[i] >= 128

\* the data ends, before its 10th byte, while the continuation bit is still set
EndsInContinuation ==
    Len(probe.data) < MaxVarIdBytes /\ OpensWithContinuation(Len(probe.data))

\* C26, as stated: reading a VarId from a byte stream never returns a VarId longer than
\* 10 bytes: input that starts with 10 bytes having the continuation bit set fails with
\* Overflow, input that ends while the continuation bit is still set fails with
\* InvalidLength, and Key::decode returns an error value (never panics) on any such
\* byte string.  (Input of exactly 10 continuation bytes falls under both cases:
\* either error is taken as right.)
C26_VarIdAtMostTenBytes ==
    probe.op = "read_variable_sized_id"
        => /\ probe.ok => Len(probe.id) <= MaxVarIdBytes
           /\ OpensWithContinuation(MaxVarIdBytes)
                  => /\ ~probe.ok
                     /\ probe.err = "Overflow" \/ Len(probe.data) = MaxVarIdBytes
           /\ EndsInContinuation => (~probe.ok /\ probe.err = "InvalidLength")
           /\ (OpensWithContinuation(MaxVarIdBytes) \/ EndsInContinuation) => probe.key_st = "err"

----------------------------------------------------------------------------
(* C27 *)

\* C27: once the traversal closure of JsonDfsIter has returned an error, the iterator
\* yields that error once, and every later call of next returns None, even when nodes
\* remain on the stack.
C27_ErrorEndsIteration ==
    probe.op = "iter"
        => \A i \in 1..Len(probe.yields) :
               probe.yields[i] = "err"
                   => \A j \in (i + 1)..Len(probe.yields) : probe.yields[j] = "none"

----------------------------------------------------------------------------
(* C28 *)

\* what get_database gives the step's call when no sled error is injected
Opened == GetDatabaseCall(DATABASE, INIT_PATH, disk, "none")

\* placement validation of the step's key on the store as the call finds it
PlacementOf(key) ==
    Placement(key, Decoded(key).v, Opened.db.metadata, OpenTree, "none", overflow_checks)

\* the stages of the step's call that come before the JSON parse all pass
PassesPlacement(key) ==
    /\ Decoded(key).st = "ok"
    /\ OpensOk
    /\ PlacementOf(key).st = "ok"

\* C28: errors of insert_json are reported in the order key decode, store-open
\* (PathNotSet or an init error), placement (DuplicateRootKey, NoSuperNode,
\* InvalidSuperNodeType), JSON parse, store commit: the error returned is that of the
\* first stage that fails, so a duplicate root with malformed JSON returns
\* DuplicateRootKey, and a commit error is returned only by a call whose key, placement
\* and JSON are good.
C28_ErrorPrecedence ==
    [][/\ (InsertStep /\ FaultFree)
              => /\ Decoded(last'.key).st = "err" => last'.res = "KVError"
                 /\ (Decoded(last'.key).st = "ok" /\ ~OpensOk)
                        => (last'.res = Opened.db.err
                            /\ last'.res \in {"PathNotSet", "DatabaseInitError", "KVError"})
                 /\ (Decoded(last'.key).st = "ok" /\ OpensOk /\ PlacementOf(last'.key).st = "err")
                        => (last'.res = PlacementOf(last'.key).err
                            /\ last'.res \in {"DuplicateRootKey", "NoSuperNode",
                                              "InvalidSuperNodeType", "DatabaseStoreError"})
                 /\ (PassesPlacement(last'.key) /\ ~last'.parse_ok)
                        => last'.res = "DatabaseJsonError"
                 /\ (PassesPlacement(last'.key) /\ last'.parse_ok)
                        => last'.res \in {"Ok", "panic"}
       /\ (InsertStep /\ last'.detail = "sled" /\ DATABASE.st = "ok" /\ IsRootKey(last'.key))
              => (PassesPlacement(last'.key) /\ last'.parse_ok)]_vars

\* C28 witness: a root key that is among the roots was inserted again with bytes that
\* are no JSON, and the call returned DuplicateRootKey
C28_Witness ==
    /\ last.op = "insert_json"
    /\ ~last.parse_ok
    /\ last.res = "DuplicateRootKey"
    /\ DATABASE.st = "ok"
    /\ last.key \in DATABASE.metadata.roots

----------------------------------------------------------------------------
(* C29 *)

\* Metadata::decode of the metadata record the open store holds
StoredMetadata == MetadataDecode(disk[DATABASE.path][METADAT_KEY])

\* C29, as stated: whenever no insert holds the writer lock, the in-memory metadata
\* equals the persisted metadata record: from the first successful open on, after every
\* insert (successful or failed), the in-memory last_id and roots are exactly what
\* decoding the stored metadata record yields.
C29_MemoryEqualsPersisted ==
    DATABASE.st = "ok"
        => /\ METADAT_KEY \in DOMAIN disk[DATABASE.path]
           /\ StoredMetadata.ok
           /\ StoredMetadata.v.last_id = DATABASE.metadata.last_id
           /\ StoredMetadata.v.roots = DATABASE.metadata.roots

----------------------------------------------------------------------------
(* C30 *)

\* the least length of a buffer that holds a value of the variant with this tag
MinNodeLength(tag) ==
    CASE tag = 1 -> 2
      [] tag \in {2, 3, 4} -> 9
      [] OTHER -> 1

\* C30, as stated: NodeValue::decode returns an error value (never panics) on any byte
\* string: an empty buffer, or a buffer shorter than the minimum its variant needs
\* (2 bytes for Bool, 9 for F64/I64/U64), fails with InvalidLength, and an unknown tag
\* byte fails with InvalidType.
C30_NodeValueDecodeTotal ==
    probe.op = "node_value_decode"
        => /\ probe.st # "panic"
           /\ probe.data = <<>> => (probe.st = "err" /\ probe.err = "InvalidLength")
           /\ (probe.data # <<>> /\ probe.data[1] <= 7
                   /\ Len(probe.data) < MinNodeLength(probe.data[1]))
                  => (probe.st = "err" /\ probe.err = "InvalidLength")
           /\ (probe.data # <<>> /\ probe.data[1] > 7)
                  => (probe.st = "err" /\ probe.err = "InvalidType")

====
